---- MODULE Spec2Model ----
(***************************************************************************)
(* Model of the song suggestion service (main.py): the suggestion cache,   *)
(* the per-seed YouTube fetch and scoring, the merge / rank / dedup        *)
(* pipeline of combine_suggestions and the popular-song fallback.          *)
(*                                                                         *)
(* Strings are sequences of characters, each character a string of length  *)
(* one.  Scores are Python floats, times are integer seconds.              *)
(***************************************************************************)
EXTENDS Integers, Sequences, FiniteSets, TLC

(***************************************************************************)
(* Bounds of the model.                                                    *)
(***************************************************************************)
MaxSeeds == 2
MaxRequests == 2
MaxTicks == 3

(***************************************************************************)
(* Program constants.                                                      *)
(***************************************************************************)
CACHE_TTL == 3600
REDIS_TTL_SECONDS == 3600
TopK == 5
PerSeedCap == 10
ViewBonusThreshold == 100000
FallbackViewThreshold == 100000000

\* The function f as a table: every value is computed, once.
Tabulated(f) == f @@ <<>>

(***************************************************************************)
(* Python floats (IEEE 754 binary64), for the values >= 0 the program      *)
(* computes.  A float is [e, hi, lo]: its value is (hi * 2^27 + lo) * 2^e  *)
(* with 2^52 <= hi * 2^27 + lo < 2^53; zero has hi = lo = 0.  Every        *)
(* operation gives the float nearest to the exact result, ties to the even *)
(* mantissa.  Exact results are kept as naturals in digits of base 2^15,   *)
(* the lowest digit first.                                                 *)
(***************************************************************************)
ZeroFloat == [e |-> -2000, hi |-> 0, lo |-> 0]

\* x < y for two floats
FloatLess(x, y) ==
    \/ x.e < y.e
    \/ x.e = y.e /\ x.hi < y.hi
    \/ x.e = y.e /\ x.hi = y.hi /\ x.lo < y.lo

RECURSIVE Trim(_)
Trim(x) == IF x # <<>> /\ x[Len(x)] = 0 THEN Trim(SubSeq(x, 1, Len(x) - 1)) ELSE x

Digit(x, i) == IF i <= Len(x) THEN x[i] ELSE 0

RECURSIVE BigAddFrom(_, _, _, _)
BigAddFrom(x, y, i, carry) ==
    IF i > Len(x) /\ i > Len(y) THEN (IF carry = 0 THEN <<>> ELSE <<carry>>)
    ELSE <<(Digit(x, i) + Digit(y, i) + carry) % 32768>>
         \o BigAddFrom(x, y, i + 1, (Digit(x, i) + Digit(y, i) + carry) \div 32768)

BigAdd(x, y) == BigAddFrom(x, y, 1, 0)

\* x - y for x >= y
RECURSIVE BigSubFrom(_, _, _, _)
BigSubFrom(x, y, i, borrow) ==
    IF i > Len(x) THEN <<>>
    ELSE <<(x[i] - Digit(y, i) - borrow + 32768) % 32768>>
         \o BigSubFrom(x, y, i + 1, IF x[i] - Digit(y, i) - borrow < 0 THEN 1 ELSE 0)

BigSub(x, y) == Trim(BigSubFrom(x, y, 1, 0))

\* x < y for two naturals without leading zero digits
BigLess(x, y) ==
    \/ Len(x) < Len(y)
    \/ /\ Len(x) = Len(y)
       /\ \E i \in 1..Len(x) : x[i] < y[i] /\ \A j \in (i + 1)..Len(x) : x[j] = y[j]

\* x * k for a digit k
RECURSIVE BigScaleFrom(_, _, _, _)
BigScaleFrom(x, k, i, carry) ==
    IF i > Len(x) THEN (IF carry = 0 THEN <<>> ELSE <<carry>>)
    ELSE <<(x[i] * k + carry) % 32768>>
         \o BigScaleFrom(x, k, i + 1, (x[i] * k + carry) \div 32768)

\* x * 2^k
BigShl(x, k) ==
    IF x = <<>> THEN <<>>
    ELSE [i \in 1..(k \div 15) |-> 0] \o BigScaleFrom(x, 2 ^ (k % 15), 1, 0)

\* x \div 2^k
BigShr(x, k) ==
    Trim([i \in 1..(Len(x) - (k \div 15)) |->
            (x[i + (k \div 15)] \div 2 ^ (k % 15))
            + (Digit(x, i + 1 + (k \div 15)) % 2 ^ (k % 15)) * 2 ^ (15 - (k % 15))])

RECURSIVE BigMulFrom(_, _, _)
BigMulFrom(x, y, i) ==
    IF i > Len(y) THEN <<>>
    ELSE BigAdd([j \in 1..(i - 1) |-> 0] \o BigScaleFrom(x, y[i], 1, 0),
                BigMulFrom(x, y, i + 1))

BigMul(x, y) == Trim(BigMulFrom(x, y, 1))

\* the number of binary digits of x (without leading zero digits)
BitLen(x) ==
    IF x = <<>> THEN 0
    ELSE 15 * (Len(x) - 1)
         + (CHOOSE b \in 1..15 : 2 ^ (b - 1) <= x[Len(x)] /\ x[Len(x)] < 2 ^ b)

\* the natural n < 2^31
BigOf(n) == Trim(<<n % 32768, (n \div 32768) % 32768, n \div 1073741824>>)

\* the mantissa of a float
Mantissa(x) ==
    Trim(<<x.lo % 32768, (x.lo \div 32768) + (x.hi % 8) * 4096,
           (x.hi \div 8) % 32768, x.hi \div 262144>>)

\* the float of mantissa m (2^52 <= m < 2^53) and exponent e
Pack(m, e) ==
    [e |-> e,
     hi |-> (m[2] \div 4096) + m[3] * 8 + m[4] * 262144,
     lo |-> m[1] + (m[2] % 4096) * 32768]

\* q or q + 1, as a float: q has 53 binary digits, and q + 1 may have 54
Carry(q, e, up) ==
    IF ~up THEN Pack(q, e)
    ELSE IF BitLen(BigAdd(q, <<1>>)) = 54 THEN Pack(BigShr(BigAdd(q, <<1>>), 1), e + 1)
    ELSE Pack(BigAdd(q, <<1>>), e)

\* n * 2^e cut to its 53 leading binary digits q, rounded by what is cut off
\* (rest, of k binary digits): up when it is more than half, or half and q odd
Cut(q, rest, k, e) ==
    Carry(q, e + k,
          \/ BigLess(BigShl(<<1>>, k), BigShl(rest, 1))
          \/ BigShl(rest, 1) = BigShl(<<1>>, k) /\ q[1] % 2 = 1)

\* the float nearest to n * 2^e, n > 0 of bits binary digits
RoundBits(n, e, bits) ==
    IF bits <= 53 THEN Pack(BigShl(n, 53 - bits), e - (53 - bits))
    ELSE Cut(BigShr(n, bits - 53), BigSub(n, BigShl(BigShr(n, bits - 53), bits - 53)),
             bits - 53, e)

Round(n, e) == RoundBits(n, e, BitLen(n))

\* float(n) for an int 0 <= n < 2^31
FloatOf(n) == IF n = 0 THEN ZeroFloat ELSE Round(BigOf(n), 0)

\* x + y
FloatAdd(x, y) ==
    IF x.hi = 0 THEN y
    ELSE IF y.hi = 0 THEN x
    ELSE IF x.e <= y.e
    THEN Round(BigAdd(Mantissa(x), BigShl(Mantissa(y), y.e - x.e)), x.e)
    ELSE Round(BigAdd(BigShl(Mantissa(x), x.e - y.e), Mantissa(y)), y.e)

\* x * y
FloatMul(x, y) ==
    IF x.hi = 0 \/ y.hi = 0 THEN ZeroFloat
    ELSE Round(BigMul(Mantissa(x), Mantissa(y)), x.e + y.e)

\* one binary digit of a long division by d: qr is the quotient and the
\* remainder so far, the digit is the one of weight 2^i
DivStep(qr, d, i) ==
    IF BigLess(qr[2], BigShl(d, i)) THEN qr
    ELSE <<BigAdd(qr[1], BigShl(<<1>>, i)), BigSub(qr[2], BigShl(d, i))>>

\* the long division carried on from qr through the digits of weight
\* 2^(hi - 1) down to 2^lo; nothing is left to divide once the remainder is 0
RECURSIVE DivMod(_, _, _, _)
DivMod(qr, d, hi, lo) ==
    IF qr[2] = <<>> THEN qr
    ELSE IF hi = lo + 1 THEN DivStep(qr, d, lo)
    ELSE DivMod(DivMod(qr, d, hi, (hi + lo) \div 2), d, (hi + lo) \div 2, lo)

\* 2 * q + 1 when there is a remainder, 2 * q when there is none
Sticky(q, exact) == IF exact THEN BigShl(q, 1) ELSE BigAdd(BigShl(q, 1), <<1>>)

\* the float nearest to q * 2^(e + 1), or to a little more when there is a
\* remainder
Quotient(qr, e) == Round(Sticky(qr[1], qr[2] = <<>>), e)

\* x / y for y > 0
FloatDiv(x, y) ==
    IF x.hi = 0 THEN ZeroFloat
    ELSE Quotient(DivMod(<<<<>>, BigShl(Mantissa(x), 56)>>, Mantissa(y), 58, 0), x.e - y.e - 57)

\* one binary digit of a square root: rr is the root r so far and what is
\* left of n, n - r * r; the digit of weight 2^i is set when
\* t = (r + 2^i)^2 - r * r is not more than what is left
RootStep(rr, t, i) ==
    IF BigLess(rr[2], t) THEN rr
    ELSE <<BigAdd(rr[1], BigShl(<<1>>, i)), BigSub(rr[2], t)>>

RootDigit(rr, i) ==
    RootStep(rr, BigAdd(BigShl(rr[1], i + 1), BigShl(<<1>>, 2 * i)), i)

\* the square root carried on from rr through the digits of weight
\* 2^(hi - 1) down to 2^lo; the root is found once nothing is left
RECURSIVE ISqrt(_, _, _)
ISqrt(rr, hi, lo) ==
    IF rr[2] = <<>> THEN rr
    ELSE IF hi = lo + 1 THEN RootDigit(rr, lo)
    ELSE ISqrt(ISqrt(rr, hi, (hi + lo) \div 2), (hi + lo) \div 2, lo)

\* sqrt(x)
FloatSqrt(x) ==
    IF x.hi = 0 THEN ZeroFloat
    ELSE Quotient(ISqrt(<<<<>>, BigShl(Mantissa(x), 60 + (x.e % 2))>>, 58, 0),
                  ((x.e - (x.e % 2)) - 60) \div 2 - 1)

\* the float a decimal literal denotes: 0.3 is Literal(3, 10)
Literal(n, d) == FloatDiv(FloatOf(n), FloatOf(d))

(***************************************************************************)
(* The float constants of the scoring.                                     *)
(***************************************************************************)
\* min(total_score, 4.0)
ScoreCap == FloatOf(4)
\* base_score = 1.0
BaseScoreStart == FloatOf(1)
\* base_score += 0.8
OfficialBonus == Literal(8, 10)
\* base_score += 0.5
TitleWordBonus == Literal(5, 10)
\* base_score += 0.4
SameChannelBonus == Literal(4, 10)
\* 0.3 * (video_views / 1000000)
ViewBonusPerMillion == Literal(3, 10)
\* 1.5 * float(sim_scores[i])
SimWeight == Literal(15, 10)
\* "score": 1.0 of the fallback item
FallbackScore == FloatOf(1)

(***************************************************************************)
(* Strings.                                                                *)
(***************************************************************************)
\* The characters of the model: letters, digits, the space, and the marks
\* ! ( ) - [ ] | besides.
Letters == <<"a", "b", "c", "d", "e", "f", "g", "h", "i", "j", "k", "l", "m",
             "n", "o", "p", "q", "r", "s", "t", "u", "v", "w", "x", "y", "z">>
Capitals == <<"A", "B", "C", "D", "E", "F", "G", "H", "I", "J", "K", "L", "M",
              "N", "O", "P", "Q", "R", "S", "T", "U", "V", "W", "X", "Y", "Z">>
Digits == <<"0", "1", "2", "3", "4", "5", "6", "7", "8", "9">>
Spaces == {" "}

\* the index of character c in the sequence seq, 0 when it is not there
IndexOf(seq, c) ==
    IF \E i \in 1..Len(seq) : seq[i] = c
    THEN CHOOSE i \in 1..Len(seq) : seq[i] = c
    ELSE 0

\* ord(c): the code point, by which Python compares str values.
Ord(c) ==
    IF IndexOf(Letters, c) > 0 THEN 96 + IndexOf(Letters, c)
    ELSE IF IndexOf(Capitals, c) > 0 THEN 64 + IndexOf(Capitals, c)
    ELSE IF IndexOf(Digits, c) > 0 THEN 47 + IndexOf(Digits, c)
    ELSE CASE c = " " -> 32
           [] c = "!" -> 33
           [] c = "(" -> 40
           [] c = ")" -> 41
           [] c = "-" -> 45
           [] c = "[" -> 91
           [] c = "]" -> 93
           [] c = "|" -> 124

\* \w of a regular expression
WordChars ==
    {Letters[i] : i \in 1..Len(Letters)} \cup {Capitals[i] : i \in 1..Len(Capitals)}
    \cup {Digits[i] : i \in 1..Len(Digits)}

\* str.lower() on one character.
ToLower == [c \in {Capitals[i] : i \in 1..Len(Capitals)} |-> Letters[IndexOf(Capitals, c)]]

LowerChar(c) == IF c \in DOMAIN ToLower THEN ToLower[c] ELSE c

\* str.lower()
Lower(s) == [i \in 1..Len(s) |-> LowerChar(s[i])]

RECURSIVE LStrip(_)
LStrip(s) ==
    IF s = <<>> THEN <<>>
    ELSE IF Head(s) \in Spaces THEN LStrip(Tail(s)) ELSE s

RECURSIVE RStrip(_)
RStrip(s) ==
    IF s = <<>> THEN <<>>
    ELSE IF s[Len(s)] \in Spaces THEN RStrip(SubSeq(s, 1, Len(s) - 1)) ELSE s

\* str.strip()
Strip(s) == RStrip(LStrip(s))

\* re.sub(r'[^\w\s]', '', s): keeps the word characters and the spaces.
RemovePunct(s) == SelectSeq(s, LAMBDA c : c \in WordChars \/ c \in Spaces)

\* Python's str comparison s < t.
RECURSIVE StrLess(_, _)
StrLess(s, t) ==
    IF t = <<>> THEN FALSE
    ELSE IF s = <<>> THEN TRUE
    ELSE IF Ord(Head(s)) # Ord(Head(t)) THEN Ord(Head(s)) < Ord(Head(t))
    ELSE StrLess(Tail(s), Tail(t))

\* Insert x into the ascending sequence srt after every element <= x.
RECURSIVE InsertStr(_, _)
InsertStr(srt, x) ==
    IF srt = <<>> THEN <<x>>
    ELSE IF StrLess(x, Head(srt)) THEN <<x>> \o srt
    ELSE <<Head(srt)>> \o InsertStr(Tail(srt), x)

\* sorted(list of str)
RECURSIVE SortStrings(_)
SortStrings(ss) ==
    IF ss = <<>> THEN <<>>
    ELSE InsertStr(SortStrings(SubSeq(ss, 1, Len(ss) - 1)), ss[Len(ss)])

\* sep.join(list of str)
RECURSIVE Join(_, _)
Join(sep, ss) ==
    IF ss = <<>> THEN <<>>
    ELSE IF Len(ss) = 1 THEN ss[1]
    ELSE ss[1] \o sep \o Join(sep, Tail(ss))

\* [s.lower().strip() for s in song_names]
NormSeeds(song_names) == [i \in 1..Len(song_names) |-> Strip(Lower(song_names[i]))]

\* A fingerprint that keeps the request order (the sort forgotten).
CacheKeyUnsorted(song_names) == Join(<<"|">>, NormSeeds(song_names))

\* cache_key = "|".join(sorted([s.lower().strip() for s in song_names]))
CacheKey(song_names) == Join(<<"|">>, SortStrings(NormSeeds(song_names)))

(***************************************************************************)
(* The upstream world: the videos YouTube knows, what a search for a       *)
(* normalized query returns, and the popular chart.                        *)
(***************************************************************************)
NoDuration == [pt |-> FALSE, h |-> -1, m |-> -1, s |-> -1]
Dur(h, m, s) == [pt |-> TRUE, h |-> h, m |-> m, s |-> s]

Vid(id, title, channel, views, duration) ==
    [id |-> id, title |-> title, channel |-> channel, views |-> views, duration |-> duration]

\* The items upstream responses are made of.  "v2r" is video v2 as a later
\* response shows it, renamed.
Video(v) ==
    CASE v = "o1" -> Vid("o1", <<"a">>, <<"c">>, 0, Dur(-1, 3, 0))
      [] v = "o2" -> Vid("o2", <<"b">>, <<"g">>, 0, Dur(-1, 3, 0))
      [] v = "v1" -> Vid("v1", <<"d">>, <<"c">>, 0, Dur(-1, 3, 20))
      [] v = "v2" -> Vid("v2", <<"e">>, <<"g">>, 2000000, Dur(-1, 4, -1))
      [] v = "v2r" -> Vid("v2", <<"e", " ", "c">>, <<"g">>, 2000000, Dur(-1, 4, -1))
      [] v = "v3" -> Vid("v3", <<"e", "!">>, <<"C">>, 100000, Dur(-1, 2, 5))
      [] v = "v4" -> Vid("v4", <<"B">>, <<"f">>, 200000000, Dur(-1, 3, 0))
      [] v = "v5" -> Vid("v5", <<"b">>, <<"f">>, 5000000, Dur(-1, 3, 0))
      [] v = "v6" -> Vid("v6", <<"L", "I", "V", "E", " ", "f">>, <<"c">>, 900000000, Dur(-1, 5, 0))
      [] v = "v7" -> Vid("v7", <<"f">>, <<"c">>, 0, Dur(-1, -1, 45))
      [] v = "v8" -> Vid("v8", <<"b", " ", "f">>, <<"f">>, 0, Dur(1, 2, 0))
      [] v = "v9" -> Vid("v9", <<"o", "f", "f", "i", "c", "i", "a", "l", " ", "v", "i", "d", "e", "o", " ", "g">>, <<"f">>, 2400000, Dur(-1, 3, 0))
      [] v = "v10" -> Vid("v10", <<"g">>, <<"f">>, 0, NoDuration)
      [] OTHER -> Vid("v11", <<"c">>, <<"f">>, 0, Dur(1, -1, -1))

\* items of the search for a normalized query (top hit first)
SearchItems(q) ==
    CASE q = <<"a">> -> <<"o1">>
      [] q = <<"b">> -> <<"o2">>
      [] OTHER -> <<>>

\* items related to a video
RelatedItems(v) ==
    CASE v = "o1" -> <<"v2", "v3", "v4", "v5", "v6", "v7", "v10", "v2">>
      [] v = "o2" -> <<"v9", "v2r", "v8", "v11", "v1", "v3">>
      [] OTHER -> <<>>

\* cosine similarity of the seed text of o and the text of v: 0.5, 1.0, 0.0
Cosine(o, v) ==
    CASE o = "o2" /\ v = "v8" -> Literal(5, 10)
      [] o = "o2" /\ v = "v9" -> FloatOf(1)
      [] OTHER -> ZeroFloat

\* Upstream conditions of a per-seed fetch and of the chart fetch.  "status":
\* a non-200 answer; "limited": the search is answered 429 and 429 again ten
\* seconds later; "limited_once": 429, then 200; "malformed": a 200 answer
\* whose first item has no video id; "degenerate": texts from which TF-IDF
\* builds no vocabulary.
Faults == {"none", "status", "timeout", "empty", "malformed",
           "limited", "limited_once", "degenerate"}
Charts == {"error", "empty", "low", "high"}

ChartEntry(id, title, channel, hasViews, views) ==
    [id |-> id, title |-> title, channel |-> channel, hasViews |-> hasViews, views |-> views]

\* items of the mostPopular chart
ChartItems(chart) ==
    CASE chart = "low" ->
            << ChartEntry("c1", <<"c">>, <<"c">>, TRUE, 5000000),
               ChartEntry("c2", <<"d">>, <<"g">>, FALSE, 0) >>
      [] chart = "high" ->
            << ChartEntry("c1", <<"c">>, <<"c">>, TRUE, 5000000),
               ChartEntry("c3", <<"C", "!">>, <<"c">>, TRUE, 300000000),
               ChartEntry("c4", <<"e">>, <<"g">>, TRUE, 150000000) >>
      [] OTHER -> <<>>

(***************************************************************************)
(* Scoring (get_youtube_suggestions, step 4).                              *)
(***************************************************************************)
Min(a, b) == IF a < b THEN a ELSE b

\* sub in s: sub is a substring of s
Contains(s, sub) ==
    \E i \in 0..(Len(s) - Len(sub)) : SubSeq(s, i + 1, i + Len(sub)) = sub

\* str.split(): the maximal runs of characters that are not spaces
RECURSIVE SplitFrom(_, _)
SplitFrom(s, cur) ==
    IF s = <<>> THEN (IF cur = <<>> THEN <<>> ELSE <<cur>>)
    ELSE IF Head(s) \in Spaces
         THEN (IF cur = <<>> THEN <<>> ELSE <<cur>>) \o SplitFrom(Tail(s), <<>>)
         ELSE SplitFrom(Tail(s), Append(cur, Head(s)))

Split(s) == SplitFrom(s, <<>>)

UnwantedKeywords ==
    { <<"l", "i", "v", "e">>,
      <<"c", "o", "v", "e", "r">>,
      <<"r", "e", "m", "i", "x">>,
      <<"k", "a", "r", "a", "o", "k", "e">>,
      <<"i", "n", "s", "t", "r", "u", "m", "e", "n", "t", "a", "l">>,
      <<"t", "u", "t", "o", "r", "i", "a", "l">>,
      <<"r", "e", "a", "c", "t", "i", "o", "n">>,
      <<"l", "y", "r", "i", "c", "s">> }

\* any(keyword in title for keyword in unwanted_keywords)
IsUnwanted(title) == \E k \in UnwantedKeywords : Contains(title, k)

\* minutes = int(match.group(1)) if match else 0; "PT" in duration and minutes < 1
IsUltraShort(duration) ==
    LET minutes == IF duration.m >= 0 THEN duration.m ELSE 0
    IN duration.pt /\ minutes < 1

\* base_score += bonus, when the condition holds
AddIf(base_score, condition, bonus) ==
    IF condition THEN FloatAdd(base_score, bonus) ELSE base_score

\* Heuristic base score of a related video against the original video
\* (lines 322-331): the bonuses are added one after the other, each sum a
\* float.
BaseScore(title, channel, views, original_title, original_channel) ==
    AddIf(AddIf(AddIf(AddIf(BaseScoreStart,
                            \/ Contains(title, <<"o", "f", "f", "i", "c", "i", "a", "l", " ", "v", "i", "d", "e", "o">>)
                            \/ Contains(title, <<"o", "f", "f", "i", "c", "i", "a", "l", " ", "m", "u", "s", "i", "c", " ", "v", "i", "d", "e", "o">>),
                            OfficialBonus),
                      \E i \in 1..Len(Split(original_title)) :
                          Contains(title, Split(original_title)[i]),
                      TitleWordBonus),
                channel = original_channel,
                SameChannelBonus),
          views > ViewBonusThreshold,
          FloatMul(ViewBonusPerMillion, FloatDiv(FloatOf(views), FloatOf(1000000))))

\* A total score with the cap forgotten.
FinalScoreUncapped(base, sim) == FloatAdd(base, FloatMul(SimWeight, sim))

\* min(a, b) of Python
FloatMin(a, b) == IF FloatLess(b, a) THEN b ELSE a

\* total_score = base + 1.5 * float(sim); "score": min(total_score, 4.0)
FinalScore(base, sim) == FloatMin(FloatAdd(base, FloatMul(SimWeight, sim)), ScoreCap)

\* the score of related video v against the original video o
Score(o, v) ==
    FinalScore(BaseScore(Lower(Video(v).title), Lower(Video(v).channel), Video(v).views,
                         Lower(Video(o).title), Lower(Video(o).channel)),
               Cosine(o, v))

\* the scores of the related videos of the model
Scores ==
    Tabulated([o \in {"o1", "o2"} |->
                 Tabulated([v \in {RelatedItems(o)[i] : i \in 1..Len(RelatedItems(o))} |->
                              Score(o, v)])])

Suggestion(title, artist, id, score) ==
    [title |-> title, artist |-> artist, youtube_video_id |-> id, score |-> score]

(***************************************************************************)
(* Sorting and list helpers.                                               *)
(***************************************************************************)
\* lst[:n]
Take(lst, n) == SubSeq(lst, 1, Min(n, Len(lst)))

\* Insert x into the descending sequence srt after every element whose score
\* is >= x.score: equal scores keep their input order.
RECURSIVE InsertByScore(_, _)
InsertByScore(srt, x) ==
    IF srt = <<>> THEN <<x>>
    ELSE IF ~FloatLess(Head(srt).score, x.score)
    THEN <<Head(srt)>> \o InsertByScore(Tail(srt), x)
    ELSE <<x>> \o srt

\* Insert x before the elements of equal score.
RECURSIVE InsertByScoreBefore(_, _)
InsertByScoreBefore(srt, x) ==
    IF srt = <<>> THEN <<x>>
    ELSE IF FloatLess(x.score, Head(srt).score)
    THEN <<Head(srt)>> \o InsertByScoreBefore(Tail(srt), x)
    ELSE <<x>> \o srt

\* A descending sort that reverses the input order of equal scores.
RECURSIVE SortByScoreDescUnstable(_)
SortByScoreDescUnstable(lst) ==
    IF lst = <<>> THEN <<>>
    ELSE InsertByScoreBefore(SortByScoreDescUnstable(SubSeq(lst, 1, Len(lst) - 1)), lst[Len(lst)])

\* sorted(lst, key=lambda x: x["score"], reverse=True): stable
RECURSIVE SortByScoreDesc(_)
SortByScoreDesc(lst) ==
    IF lst = <<>> THEN <<>>
    ELSE InsertByScore(SortByScoreDesc(SubSeq(lst, 1, Len(lst) - 1)), lst[Len(lst)])

(***************************************************************************)
(* get_youtube_suggestions: the per-seed fetch.  The value is              *)
(* [tag, items, calls]: tag "None", "List" or "Raise" (an exception the    *)
(* function does not catch), calls the number of HTTP requests issued.     *)
(***************************************************************************)
Outcome(tag, items, calls) == [tag |-> tag, items |-> items, calls |-> calls]

\* The related videos that pass the keyword, details and duration filters.
RECURSIVE Candidates(_, _)
Candidates(related, o) ==
    IF related = <<>> THEN <<>>
    ELSE LET v == Head(related)
             rest == Candidates(Tail(related), o)
         IN IF IsUnwanted(Lower(Video(v).title)) \/ IsUltraShort(Video(v).duration)
            THEN rest
            ELSE << Suggestion(Video(v).title, Video(v).channel, Video(v).id,
                               Scores[o][v]) >> \o rest

\* the searches answered 429 under an upstream condition
Refused(fault) == IF fault = "limited" THEN 2 ELSE IF fault = "limited_once" THEN 1 ELSE 0

\* fit_transform raises ValueError (empty vocabulary).
TfidfFails(fault) == fault = "degenerate"

\* Lines 339-354: TF-IDF and cosine similarity, the scores, the sort and the
\* cap.  An exception of fit_transform is not a RequestException.  retry: the
\* search was issued again after a 429.
Similarity(suggestions, fault, retry) ==
    IF TfidfFails(fault) THEN Outcome("Raise", <<>>, 4 + retry)
    ELSE Outcome("List", Take(SortByScoreDesc(suggestions), PerSeedCap), 4 + retry)

\* Lines 296-354: nothing related, nothing left after the filters, or the
\* ranked suggestions.
RankRelated(related, suggestions, fault, retry) ==
    IF related = <<>> THEN Outcome("None", <<>>, 3 + retry)
    ELSE IF suggestions = <<>> THEN Outcome("None", <<>>, 4 + retry)
    ELSE Similarity(suggestions, fault, retry)

\* calls counts the HTTP requests issued, the retry after a 429 included.
GetYoutubeSuggestions(song_name, fault) ==
    LET q == Strip(Lower(RemovePunct(song_name)))
        items == IF fault = "empty" THEN <<>> ELSE SearchItems(q)
        retry == IF Refused(fault) > 0 THEN 1 ELSE 0
    IN IF fault \in {"timeout", "status"} THEN Outcome("None", <<>>, 1)
       ELSE IF Refused(fault) = 2 THEN Outcome("None", <<>>, 2)
       ELSE IF items = <<>> THEN Outcome("None", <<>>, 1 + retry)
       ELSE IF fault = "malformed" THEN Outcome("Raise", <<>>, 1)
       ELSE RankRelated(RelatedItems(items[1]),
                        Candidates(RelatedItems(items[1]), items[1]), fault, retry)

\* get_youtube_suggestions on the seeds and upstream conditions of the model.
SeedStrings == {<<"a">>, <<"b">>, <<"B", " ">>, <<"c">>}
Fetch == [s \in SeedStrings, f \in Faults |-> GetYoutubeSuggestions(s, f)]

\* The upstream conditions combine_suggestions can tell apart: it sees of a
\* fetch only the value or the exception, and "limited" ends like "status",
\* "limited_once" like "none" and "degenerate" like "malformed".
RequestFaults == Faults \ {"limited", "limited_once", "degenerate"}

(***************************************************************************)
(* get_popular_song_fallback.  pick stands for random.choice.              *)
(***************************************************************************)
FallbackPool(chart) ==
    LET items == ChartItems(chart)
        high == SelectSeq(items, LAMBDA it : it.hasViews /\ it.views > FallbackViewThreshold)
    IN IF high = <<>> THEN items ELSE high

\* the pool of each chart condition of the model
PoolOf == [chart \in Charts |-> FallbackPool(chart)]

GetPopularSongFallback(chart, pick) ==
    LET pool == PoolOf[chart]
    IN IF chart = "error" \/ pool = <<>> THEN Outcome("None", <<>>, 1)
       ELSE LET song == pool[((pick - 1) % Len(pool)) + 1]
            IN Outcome("List", <<Suggestion(song.title, song.channel, song.id, FallbackScore)>>, 1)

(***************************************************************************)
(* State.                                                                  *)
(***************************************************************************)
VARIABLES
    now,               \* time.time(), in seconds
    ticks,             \* number of clock steps taken
    nreq,              \* number of requests served
    redis_on,          \* redis_client is configured
    suggestion_cache,  \* _suggestion_cache: key -> (timestamp, suggestions)
    redis_store,       \* Tier 2: "suggestions:<key>" -> value with expiry
    lru,               \* memo of get_youtube_suggestions (functools.lru_cache)
    last,              \* what the last combine_suggestions call saw and returned
    fp,                \* two seed lists and their fingerprints
    api_key,           \* YOUTUBE_API_KEY is set
    liked_songs_store, \* liked_songs_store: user id -> songs
    db,                \* the durable stores: store -> users and liked-song rows
    resp,              \* the last HTTP exchange of POST /suggestions
    inflight,          \* the _cache_get call each request in flight is in, if any
    loop,              \* the request inside _cache_get, 0 if none
    t1log,             \* what _cache_set wrote and what the last _cache_get did
    probe,             \* a seed list and what the fetch of each seed gave
    history,           \* the calls of get_youtube_suggestions so far, in short
    song_table,        \* the songs table (models.Song), in row order
    rec_table,         \* the recommendations table: user_id -> rows
    task,              \* per thread: its run of generate_and_save_recommendations
    spotify,           \* Spotify credentials set, and what get_spotify_token memoized
    client             \* the call of get_discover_playlist / get_vibe_recommendations under way

apiVars == <<api_key, liked_songs_store, db, resp>>
concVars == <<inflight, loop, t1log>>
fetchVars == <<probe, history>>
recVars == <<song_table, rec_table, task, spotify, client>>
vars == <<now, ticks, nreq, redis_on, suggestion_cache, redis_store, lru, last, fp,
          api_key, liked_songs_store, db, resp, inflight, loop, t1log, probe, history,
          song_table, rec_table, task, spotify, client>>

sA == <<"a">>
sB == <<"b">>
sB2 == <<"B", " ">>
sC == <<"c">>

\* The requests of the model.
SongLists == { <<sA, sB>>, <<sB2, sA>>, <<sC>> }
\* cache_key of each request of the model
KeyOf == [l \in SongLists |-> CacheKey(l)]
Keys == { KeyOf[l] : l \in SongLists }

NoEntry == [present |-> FALSE, ts |-> 0, data |-> <<>>]
NoValue == [present |-> FALSE, exp |-> 0, val |-> <<>>]
Unset == [tag |-> "Unset", items |-> <<>>]

\* json.dumps(result): the JSON text is the items between brackets.
Dumps(result) == <<"[", result, "]">>
\* json.loads(val)
Loads(val) == val[2]

(***************************************************************************)
(* Tier 1: _cache_get and _cache_set on a cache map at time t.             *)
(***************************************************************************)
\* _cache_get(key): [hit, data, cache, seen, age]
CacheGet(cache, key, t) ==
    LET entry == cache[key]
    IN IF ~entry.present
       THEN [hit |-> FALSE, data |-> <<>>, cache |-> cache, seen |-> "absent", age |-> 0]
       ELSE IF t - entry.ts > CACHE_TTL
       THEN [hit |-> FALSE, data |-> <<>>, cache |-> [cache EXCEPT ![key] = NoEntry],
             seen |-> "expired", age |-> t - entry.ts]
       ELSE [hit |-> TRUE, data |-> entry.data, cache |-> cache,
             seen |-> "hit", age |-> t - entry.ts]

\* _cache_set(key, value)
CacheSet(cache, key, value, t) ==
    [cache EXCEPT ![key] = [present |-> TRUE, ts |-> t, data |-> value]]

(***************************************************************************)
(* Tier 2: redis get / setex.  A key is gone once its expiry is reached.   *)
(***************************************************************************)
RedisGet(store, key, t) ==
    IF store[key].present /\ t < store[key].exp THEN store[key].val ELSE <<>>

\* A redis get whose failure leaves the function.
RedisTryGetUncaught(ron, rget, store, key, t) ==
    IF ~ron THEN [raised |-> FALSE, failed |-> FALSE, val |-> <<>>]
    ELSE IF rget THEN [raised |-> FALSE, failed |-> FALSE, val |-> RedisGet(store, key, t)]
    ELSE [raised |-> TRUE, failed |-> TRUE, val |-> <<>>]

\* if redis_client: try: val = redis_client.get(...) except Exception: warn.
\* rget: the get works.  raised: an exception leaves the block.
RedisTryGet(ron, rget, store, key, t) ==
    IF ~ron THEN [raised |-> FALSE, failed |-> FALSE, val |-> <<>>]
    ELSE IF rget THEN [raised |-> FALSE, failed |-> FALSE, val |-> RedisGet(store, key, t)]
    ELSE [raised |-> FALSE, failed |-> TRUE, val |-> <<>>]

RedisSetex(store, key, ttl, val, t) ==
    [store EXCEPT ![key] = [present |-> TRUE, exp |-> t + ttl, val |-> val]]

(***************************************************************************)
(* combine_suggestions.                                                    *)
(***************************************************************************)
\* Every item appended, whatever ids are already there.
RECURSIVE MergeAll(_, _)
MergeAll(all, items) ==
    IF items = <<>> THEN all ELSE MergeAll(Append(all, Head(items)), Tail(items))

\* for suggestion in suggestions: append it unless its youtube_video_id is in
\* video_id_set
RECURSIVE MergeInto(_, _)
MergeInto(all, items) ==
    IF items = <<>> THEN all
    ELSE IF \E i \in 1..Len(all) : all[i].youtube_video_id = Head(items).youtube_video_id
    THEN MergeInto(all, Tail(items))
    ELSE MergeInto(Append(all, Head(items)), Tail(items))

\* @lru_cache(maxsize=128) on get_youtube_suggestions (line 209).  The memo is
\* the sequence of its entries [key, tag, items], the least recently used
\* first.
LruMaxSize == 128

\* The value memoized for song: Unset when there is none.
Memoized(memo, song) ==
    IF \E i \in 1..Len(memo) : memo[i].key = song
    THEN LET e == memo[CHOOSE i \in 1..Len(memo) : memo[i].key = song]
         IN [tag |-> e.tag, items |-> e.items]
    ELSE Unset

\* The entry of song becomes the most recently used one; a new entry takes
\* the place of the least recently used one when the memo is full.
Touch(memo, song, r) ==
    LET others == SelectSeq(memo, LAMBDA e : e.key # song)
        kept == IF Len(others) >= LruMaxSize THEN Tail(others) ELSE others
    IN Append(kept, [key |-> song, tag |-> r.tag, items |-> r.items])

\* A memo that keeps lists only (None is fetched again).
MemoizeLists(memo, song, r) ==
    IF r.tag # "List" THEN memo ELSE Touch(memo, song, r)

\* What a call that gave r leaves in the memo: the value returned, None
\* included, is kept under the exact argument string, a hit makes its entry
\* the most recently used, and a call that raises leaves nothing.
Memoize(memo, song, r) ==
    IF r.tag = "Raise" THEN memo ELSE Touch(memo, song, r)

\* get_youtube_suggestions(song) behind its lru_cache: the memoized value, by
\* no HTTP request, or what upstream gives.
CachedFetch(memo, song, fault) ==
    IF Memoized(memo, song).tag # "Unset"
    THEN Outcome(Memoized(memo, song).tag, Memoized(memo, song).items, 0)
    ELSE Fetch[song, fault]

\* The loop over song_names: memoized fetch, merge by youtube_video_id.
\* acc = [lru, all, calls, raised]; r is what the fetch of the first name
\* gave.
RECURSIVE MergeLoop(_, _, _)
RECURSIVE MergeFetched(_, _, _, _)
MergeFetched(song_names, fault, acc, r) ==
    IF r.tag = "Raise"
    THEN [acc EXCEPT !.raised = TRUE, !.calls = @ + r.calls]
    ELSE MergeLoop(Tail(song_names), fault,
            [lru |-> Memoize(acc.lru, Head(song_names), r),
             all |-> MergeInto(acc.all, r.items),
             calls |-> acc.calls + r.calls,
             raised |-> FALSE])

MergeLoop(song_names, fault, acc) ==
    IF song_names = <<>> \/ acc.raised THEN acc
    ELSE MergeFetched(song_names, fault, acc,
                      CachedFetch(acc.lru, Head(song_names), fault))

\* for suggestion in ranked_suggestions: keep it unless title.lower() is in
\* seen_titles
RECURSIVE DedupTitles(_, _)
DedupTitles(ranked, seen) ==
    IF ranked = <<>> THEN <<>>
    ELSE LET title == Lower(Head(ranked).title)
         IN IF title \in seen THEN DedupTitles(Tail(ranked), seen)
            ELSE <<Head(ranked)>> \o DedupTitles(Tail(ranked), seen \cup {title})

\* The first n + 1 elements (an off-by-one slice).
TopOffByOne(lst, n) == SubSeq(lst, 1, Min(n + 1, Len(lst)))

\* unique_suggestions[:5]
Top(lst, n) == SubSeq(lst, 1, Min(n, Len(lst)))

\* Rank and deduplicate: the list written to the cache and returned.
RankAndDedup(all) == Top(DedupTitles(SortByScoreDesc(all), {}), TopK)

\* What get_youtube_suggestions(song) returns for each seed at this moment:
\* the memoized value if there is one, else what upstream gives.
Yields(song_names, fault, memo) ==
    [i \in 1..Len(song_names) |-> CachedFetch(memo, song_names[i], fault).tag]

\* The part of combine_suggestions after the cache lookups (lines 383-417):
\* g is the Tier 1 lookup, m the merge loop, fb the fallback's value.
Pipeline(cache_key, rset, t, store, memo, ron, g, m, fb, result) ==
    LET base == [key |-> cache_key, merged |-> <<>>, calls |-> m.calls,
                 cache |-> g.cache, store |-> store, lru |-> m.lru,
                 t1 |-> g.seen, age |-> g.age, result |-> <<>>, path |-> "error",
                 getfail |-> FALSE, setfail |-> FALSE]
    IN IF m.raised THEN base
       ELSE IF fb.tag = "List"
       THEN [base EXCEPT !.path = "fallback", !.calls = m.calls + fb.calls,
                         !.result = fb.items]
       ELSE [base EXCEPT !.path = IF result = <<>> THEN "empty" ELSE "primary",
                         !.merged = m.all, !.calls = m.calls + fb.calls,
                         !.result = result,
                         !.cache = CacheSet(g.cache, cache_key, result, t),
                         !.setfail = ron /\ ~rset,
                         !.store = IF ron /\ rset
                                   THEN RedisSetex(store, cache_key, REDIS_TTL_SECONDS,
                                                   Dumps(result), t)
                                   ELSE store]

\* The cache lookups of combine_suggestions (lines 368-381), then the pipeline.
Lookup(song_names, fault, chart, pick, rset, t, cache, store, memo, ron, cache_key, r, g, m) ==
    LET hit == [key |-> cache_key, merged |-> <<>>, calls |-> 0,
                cache |-> cache, store |-> store, lru |-> memo,
                t1 |-> "skip", age |-> 0, result |-> <<>>, path |-> "cache",
                getfail |-> r.failed, setfail |-> FALSE]
    IN IF r.raised
       THEN [hit EXCEPT !.path = "error"]
       ELSE IF r.val # <<>>
       THEN [hit EXCEPT !.result = Loads(r.val)]
       ELSE IF g.hit
       THEN [hit EXCEPT !.result = g.data, !.t1 = g.seen, !.age = g.age]
       ELSE [Pipeline(cache_key, rset, t, store, memo, ron, g, m,
                      IF m.all = <<>> THEN GetPopularSongFallback(chart, pick)
                      ELSE Outcome("None", <<>>, 0),
                      RankAndDedup(m.all))
             EXCEPT !.getfail = r.failed]

\* combine_suggestions(song_names) at time t on the state (cache, store, memo),
\* ron: redis_client is set; rget / rset: the redis get / setex succeeds.
Combine(song_names, fault, chart, pick, rget, rset, t, cache, store, memo, ron) ==
    Lookup(song_names, fault, chart, pick, rset, t, cache, store, memo, ron,
           KeyOf[song_names],
           RedisTryGet(ron, rget, store, KeyOf[song_names], t),
           CacheGet(cache, KeyOf[song_names], t),
           MergeLoop(song_names, fault,
                     [lru |-> memo, all |-> <<>>, calls |-> 0, raised |-> FALSE]))

(***************************************************************************)
(* The durable likes stores (db.py) and _persist_user_likes_write_through. *)
(***************************************************************************)
Users == {"u1", "u2"}

\* get_write_sessions(): the sessions it would yield, sqlite first.  It is
\* declared with @contextmanager, so a call returns a context manager object,
\* which "for db in ..." cannot iterate (TypeError: not iterable).
GetWriteSessions == [iterable |-> FALSE, sessions |-> <<"sqlite", "postgres">>]

StoreNames == {GetWriteSessions.sessions[i] : i \in 1..Len(GetWriteSessions.sessions)}

\* One store: the users table and the user_liked_songs rows of each user.
Table(users, likes) == [users |-> users, likes |-> likes]
EmptyTable == Table({}, [u \in Users |-> <<>>])

\* no two rows of a user carry the same song_name (uq_user_song)
HasDuplicates(songs) == \E i, j \in 1..Len(songs) : i # j /\ songs[i] = songs[j]

\* The body of the loop for one session (lines 120-134): the user is created
\* if missing, all rows of the user are deleted and one row per song is added;
\* commit fails when the session fails (~ok) or two songs are equal, and the
\* rollback leaves the store as it was.  deleted / inserted: the rows the
\* statements issued touch.
WriteThrough(table, user, songs, ok) ==
    IF ok /\ ~HasDuplicates(songs)
    THEN [table |-> Table(table.users \cup {user}, [table.likes EXCEPT ![user] = songs]),
          failed |-> FALSE, deleted |-> table.likes[user], inserted |-> songs]
    ELSE [table |-> table, failed |-> TRUE,
          deleted |-> table.likes[user], inserted |-> songs]

NoOps == [s \in StoreNames |-> [deleted |-> <<>>, inserted |-> <<>>, failed |-> FALSE]]

\* The loop over the sessions.  acc = [db, ops]
RECURSIVE PersistLoop(_, _, _, _, _)
PersistLoop(sessions, user, songs, oks, acc) ==
    IF sessions = <<>> THEN acc
    ELSE LET s == Head(sessions)
             w == WriteThrough(acc.db[s], user, songs, oks[s])
         IN PersistLoop(Tail(sessions), user, songs, oks,
                [db |-> [acc.db EXCEPT ![s] = w.table],
                 ops |-> [acc.ops EXCEPT ![s] = [deleted |-> w.deleted,
                                                 inserted |-> w.inserted,
                                                 failed |-> w.failed]]])

\* _persist_user_likes_write_through(user_external_id, songs) on the stores
\* dbs; oks: which sessions work.  raised: the call ends with an exception.
PersistUserLikesWriteThrough(dbs, user, songs, oks) ==
    IF ~GetWriteSessions.iterable
    THEN [raised |-> TRUE, db |-> dbs, ops |-> NoOps]
    ELSE LET r == PersistLoop(GetWriteSessions.sessions, user, songs, oks,
                              [db |-> dbs, ops |-> NoOps])
         IN [raised |-> FALSE, db |-> r.db, ops |-> r.ops]

(***************************************************************************)
(* The state machine.                                                      *)
(***************************************************************************)
NoRequest ==
    [songs |-> <<>>, key |-> <<>>, catalog |-> FALSE, time |-> 0,
     path |-> "none", result |-> <<>>, merged |-> <<>>, calls |-> 0,
     t1 |-> "skip", age |-> 0, yields |-> <<>>, getfail |-> FALSE, setfail |-> FALSE]

NoKeys == [a |-> <<>>, b |-> <<>>, ka |-> <<>>, kb |-> <<>>, done |-> FALSE]

NoLikes == [present |-> FALSE, songs |-> <<>>]
NoResponse == [status |-> 0, method |-> "none", stage |-> "none", user |-> "",
               songs |-> <<>>, suggestions |-> <<>>, liked |-> <<>>, calls |-> 0,
               ops |-> NoOps]

MaxInFlight == 2
Slots == 1..MaxInFlight

Idle == [pc |-> "idle", key |-> <<>>, now |-> 0, entry |-> NoEntry]
NoEvent == [kind |-> "none", key |-> <<>>, ts |-> 0, data |-> <<>>, at |-> 0]

NoProbe == [songs |-> <<>>, i |-> 1, outs |-> <<>>, raised |-> FALSE]

\* The seed strings whose calls are followed one by one.
MemoSeeds == {sA}

\* No call of get_youtube_suggestions yet.  returned: the value each seed
\* gave when it last returned; since: the other strings requested since
\* then; others: how many other strings have been requested at all; call:
\* the last call.
NoHistory ==
    [returned |-> [x \in MemoSeeds |-> Unset],
     since |-> [x \in MemoSeeds |-> {}],
     others |-> 0,
     call |-> [song |-> <<>>, fault |-> "none", memo |-> FALSE, tag |-> "Unset",
               items |-> <<>>, calls |-> 0, prior |-> Unset, since |-> 0]]

\* No request in flight, nothing written to Tier 1 yet, no fetch under way.
ConcIdle ==
    /\ inflight = [r \in Slots |-> Idle]
    /\ loop = 0
    /\ t1log = [written |-> {}, event |-> NoEvent]
    /\ probe = NoProbe
    /\ history = NoHistory

\* The background task has not run: no song cached, no recommendation stored.
TaskSlots == {1, 2}

NoTask == [pc |-> "none", user |-> "", songs |-> <<>>, i |-> 1, track |-> <<>>,
           features |-> <<>>, stage |-> "none", raised |-> FALSE, overlap |-> FALSE,
           before |-> <<>>, computed |-> <<>>]

\* No call of the Spotify client under way.
NoCall == [pc |-> "idle", fn |-> "none", genres |-> FALSE, result |-> "none", calls |-> 0]

\* get_spotify_token has not been called.
NoToken == [configured |-> TRUE, token |-> "unset"]

RecIdle ==
    /\ song_table = <<>>
    /\ rec_table = [u \in Users |-> <<>>]
    /\ task = [t \in TaskSlots |-> NoTask]
    /\ spotify = NoToken
    /\ client = NoCall

\* The HTTP layer at rest: key configured, nothing stored, nothing answered.
ApiIdle ==
    /\ api_key = TRUE
    /\ liked_songs_store = [u \in Users |-> NoLikes]
    /\ db = [s \in StoreNames |-> EmptyTable]
    /\ resp = NoResponse

Init ==
    /\ now = 0
    /\ ticks = 0
    /\ nreq = 0
    /\ redis_on \in BOOLEAN
    /\ suggestion_cache = [k \in Keys |-> NoEntry]
    /\ redis_store = [k \in Keys |-> NoValue]
    /\ lru = <<>>
    /\ last = NoRequest
    /\ fp = NoKeys
    /\ ApiIdle
    /\ ConcIdle
    /\ RecIdle

\* The clock advances in steps of half the TTL, so that an entry is looked up
\* before, exactly at and after its TTL.
TickSteps == {CACHE_TTL \div 2}

\* Time passes.
Tick(d) ==
    /\ ticks < MaxTicks
    /\ now' = now + d
    /\ ticks' = ticks + 1
    /\ UNCHANGED <<nreq, redis_on, suggestion_cache, redis_store, lru, last, fp, apiVars, concVars, fetchVars, recVars>>

PickRange(chart) == 1..(IF Len(PoolOf[chart]) = 0 THEN 1 ELSE Len(PoolOf[chart]))

\* The values combine_suggestions can produce in the current state, given the
\* upstream conditions: c0 is the call with the first random choice and a
\* working redis setex; random.choice is drawn only where the fallback made a
\* choice, the setex outcome only where setex is called.
Outcomes(song_names, fault, chart, rget, c0) ==
    IF c0.path = "fallback"
    THEN { Combine(song_names, fault, chart, pick, rget, TRUE,
                   now, suggestion_cache, redis_store, lru, redis_on) :
           pick \in PickRange(chart) }
    ELSE IF redis_on /\ c0.path \in {"primary", "empty"}
    THEN { c0, Combine(song_names, fault, chart, 1, rget, FALSE,
                       now, suggestion_cache, redis_store, lru, redis_on) }
    ELSE { c0 }

\* One call of combine_suggestions(song_names) under upstream conditions
\* fault (per-seed fetches) and chart (popular chart); rget: redis get works.
Served(song_names, fault, chart, rget) ==
    Outcomes(song_names, fault, chart, rget,
             Combine(song_names, fault, chart, 1, rget, TRUE,
                     now, suggestion_cache, redis_store, lru, redis_on))

\* The state after the call that produced c.
Commit(c, song_names, fault, chart) ==
    /\ suggestion_cache' = c.cache
    /\ redis_store' = c.store
    /\ lru' = c.lru
    /\ last' = [songs |-> song_names, key |-> c.key,
                catalog |-> (chart # "error" /\ PoolOf[chart] # <<>>),
                time |-> now, path |-> c.path,
                result |-> c.result, merged |-> c.merged, calls |-> c.calls,
                t1 |-> c.t1, age |-> c.age,
                yields |-> Yields(song_names, fault, lru),
                getfail |-> c.getfail, setfail |-> c.setfail]

CombineSuggestions(song_names, fault, chart, rget) ==
    /\ nreq < MaxRequests
    /\ \E c \in Served(song_names, fault, chart, rget) :
          Commit(c, song_names, fault, chart)
    /\ nreq' = nreq + 1
    /\ UNCHANGED <<now, ticks, redis_on, fp, apiVars, concVars, fetchVars, recVars>>

\* A request arrives under some upstream conditions.
Request ==
    \E song_names \in SongLists, fault \in RequestFaults, chart \in Charts :
       \E rget \in (IF redis_on THEN BOOLEAN ELSE {TRUE}) :
          CombineSuggestions(song_names, fault, chart, rget)

ClockTick == \E d \in TickSteps : Tick(d)

Next == ClockTick \/ Request

Spec == Init /\ [][Next]_vars

(***************************************************************************)
(* POST /suggestions (post_suggestions).                                   *)
(***************************************************************************)
StatusOk == 200
StatusBadRequest == 400
StatusNotFound == 404
StatusServerError == 500

\* The bodies a client posts: the requests of the model and the empty list.
PostedLists == SongLists \cup {<<>>}

\* A handler that only checks the key (the songs check forgotten).
RejectsMissingKeyOnly(key_set, songs) ==
    IF ~key_set THEN StatusServerError ELSE 0

\* The checks that open post_suggestions: the status of the HTTPException
\* raised, 0 if none is.
Rejects(key_set, songs) ==
    IF ~key_set THEN StatusServerError
    ELSE IF songs = <<>> THEN StatusBadRequest
    ELSE 0

\* liked_songs_store[request.user_id] = request.songs
StoreLikes(likes, user, songs) ==
    [likes EXCEPT ![user] = [present |-> TRUE, songs |-> songs]]

\* An exchange: the request, the answer, where the handler ended, the
\* provider calls and the database statements it issued.
Response(status, stage, user, songs, suggestions, calls, ops) ==
    [status |-> status, method |-> "POST", stage |-> stage, user |-> user,
     songs |-> songs, suggestions |-> suggestions, liked |-> <<>>, calls |-> calls,
     ops |-> ops]

\* The answer to a request whose combine_suggestions call produced c: an
\* exception that leaves the handler is answered 500, an empty list 404.
Answer(c, user, songs, ops) ==
    IF c.path = "error"
    THEN Response(StatusServerError, "combine", user, songs, <<>>, c.calls, ops)
    ELSE IF c.result = <<>>
    THEN Response(StatusNotFound, "notfound", user, songs, <<>>, c.calls, ops)
    ELSE Response(StatusOk, "ok", user, songs, c.result, c.calls, ops)

\* One POST /suggestions {user_id: user, songs: songs}.  The handler is an
\* async def without an await, so it runs to its end before another request
\* is served.
PostSuggestions(user, songs) ==
    /\ nreq < MaxRequests
    /\ nreq' = nreq + 1
    /\ UNCHANGED <<now, ticks, redis_on, fp, api_key, concVars, fetchVars, recVars>>
    /\ IF Rejects(api_key, songs) # 0
       THEN /\ resp' = Response(Rejects(api_key, songs), "rejected", user, songs, <<>>, 0, NoOps)
            /\ UNCHANGED <<liked_songs_store, db, suggestion_cache, redis_store, lru, last>>
       ELSE \E oks \in (IF GetWriteSessions.iterable THEN [StoreNames -> BOOLEAN]
                        ELSE {[s \in StoreNames |-> TRUE]}) :
            \E p \in {PersistUserLikesWriteThrough(db, user, songs, oks)} :
               /\ liked_songs_store' = StoreLikes(liked_songs_store, user, songs)
               /\ db' = p.db
               /\ IF p.raised
                  THEN /\ resp' = Response(StatusServerError, "persist", user, songs, <<>>, 0, p.ops)
                       /\ UNCHANGED <<suggestion_cache, redis_store, lru, last>>
                  ELSE \E fault \in RequestFaults, chart \in Charts :
                       \E rget \in (IF redis_on THEN BOOLEAN ELSE {TRUE}) :
                       \E c \in Served(songs, fault, chart, rget) :
                          /\ Commit(c, songs, fault, chart)
                          /\ resp' = Answer(c, user, songs, p.ops)


(***************************************************************************)
(* GET /liked-songs (get_liked_songs).                                     *)
(***************************************************************************)
\* get_read_session(): the store it would open (DB_READ_PREFERENCE defaults
\* to postgres).  It is declared with @contextmanager, so a call returns a
\* context manager object, which has no query and no close attribute.
GetReadSession == [session |-> FALSE, store |-> "postgres"]

\* _load_user_likes(user_external_id): the song names of the user's rows in
\* the read store, [] for an unknown user.  raised: the call ends with an
\* exception (AttributeError on db.query, then on db.close in the finally).
LoadUserLikes(dbs, user) ==
    IF ~GetReadSession.session
    THEN [raised |-> TRUE, rows |-> <<>>]
    ELSE [raised |-> FALSE,
          rows |-> IF user \in dbs[GetReadSession.store].users
                   THEN dbs[GetReadSession.store].likes[user] ELSE <<>>]

\* liked_songs_store.get(user_id, [])
StoredLikes(likes, user) == IF likes[user].present THEN likes[user].songs ELSE <<>>

\* One GET /liked-songs?user_id=user: the rows of the read store, or the
\* in-memory list when there are none.
GetLikedSongs(user) ==
    /\ nreq < MaxRequests
    /\ nreq' = nreq + 1
    /\ \E l \in {LoadUserLikes(db, user)} :
          resp' = IF l.raised
                  THEN [Response(StatusServerError, "load", user, <<>>, <<>>, 0, NoOps)
                        EXCEPT !.method = "GET"]
                  ELSE [Response(StatusOk, "liked", user, <<>>, <<>>, 0, NoOps)
                        EXCEPT !.method = "GET",
                               !.liked = IF l.rows # <<>> THEN l.rows
                                         ELSE StoredLikes(liked_songs_store, user)]
    /\ UNCHANGED <<now, ticks, redis_on, suggestion_cache, redis_store, lru, last, fp,
                   api_key, liked_songs_store, db, concVars, fetchVars, recVars>>


\* The stores as a deployment may find them: empty, or with rows of u1.
InitialTables ==
    { EmptyTable,
      Table({"u1"}, [u \in Users |-> IF u = "u1" THEN <<sA, sB>> ELSE <<>>]) }

InitApi ==
    /\ now = 0
    /\ ticks = 0
    /\ nreq = 0
    /\ redis_on \in BOOLEAN
    /\ suggestion_cache = [k \in Keys |-> NoEntry]
    /\ redis_store = [k \in Keys |-> NoValue]
    /\ lru = <<>>
    /\ last = NoRequest
    /\ fp = NoKeys
    /\ api_key \in BOOLEAN
    /\ liked_songs_store = [u \in Users |-> NoLikes]
    /\ db \in [StoreNames -> InitialTables]
    /\ resp = NoResponse
    /\ ConcIdle
    /\ RecIdle

NextApi ==
    \/ \E user \in Users, songs \in PostedLists : PostSuggestions(user, songs)
    \/ \E user \in Users : GetLikedSongs(user)

SpecApi == InitApi /\ [][NextApi]_vars

(***************************************************************************)
(* Requests in flight on the Tier 1 map: each calls _cache_get, statement  *)
(* by statement, and _cache_set, with any key and value and in any order.  *)
(***************************************************************************)
MaxCalls == 3

\* The lists _cache_set is given.
CachedValues ==
    { <<>>,
      <<Suggestion(<<"e">>, "x", "v2", ScoreCap)>>,
      <<Suggestion(<<"e">>, "x", "v2", ScoreCap), Suggestion(<<"f">>, "y", "v3", FallbackScore)>> }

\* Whether another request can run while a request is at pc inside
\* _cache_get: _cache_get is a plain function without a suspension point,
\* called on the event loop, so it cannot.
CanSwitch(pc) == FALSE

\* request r may take its next step
Runs(r) == loop \in {0, r} \/ CanSwitch(inflight[loop].pc)

\* _cache_get(key), lines 105-106: now = time.time(); entry = _suggestion_cache.get(key)
CacheRead(r, key) ==
    /\ nreq < MaxCalls
    /\ inflight[r].pc = "idle"
    /\ Runs(r)
    /\ nreq' = nreq + 1
    /\ inflight' = [inflight EXCEPT ![r] = [pc |-> "read", key |-> key, now |-> now,
                                            entry |-> suggestion_cache[key]]]
    /\ loop' = r
    /\ UNCHANGED <<now, ticks, redis_on, suggestion_cache, redis_store, lru, last, fp,
                   apiVars, fetchVars, recVars, t1log>>

\* _cache_get, lines 107-113, on the entry and the time read before: absent,
\* or expired and popped from the map as it is now, or returned.
CacheCheck(r) ==
    /\ inflight[r].pc = "read"
    /\ Runs(r)
    /\ \E g \in {CacheGet([suggestion_cache EXCEPT ![inflight[r].key] = inflight[r].entry],
                           inflight[r].key, inflight[r].now)} :
          /\ suggestion_cache' = IF g.seen = "expired"
                                 THEN [suggestion_cache EXCEPT ![inflight[r].key] = NoEntry]
                                 ELSE suggestion_cache
          /\ t1log' = [t1log EXCEPT !.event =
                          IF g.seen = "hit"
                          THEN [kind |-> "hit", key |-> inflight[r].key,
                                ts |-> inflight[r].entry.ts, data |-> g.data,
                                at |-> inflight[r].now]
                          ELSE IF g.seen = "expired" /\ suggestion_cache[inflight[r].key].present
                          THEN [kind |-> "evict", key |-> inflight[r].key,
                                ts |-> suggestion_cache[inflight[r].key].ts,
                                data |-> suggestion_cache[inflight[r].key].data,
                                at |-> inflight[r].now]
                          ELSE [NoEvent EXCEPT !.kind = "miss", !.key = inflight[r].key,
                                               !.at = inflight[r].now]]
    /\ inflight' = [inflight EXCEPT ![r] = Idle]
    /\ loop' = 0
    /\ UNCHANGED <<now, ticks, nreq, redis_on, redis_store, lru, last, fp, apiVars, fetchVars, recVars>>

\* _cache_set(key, value), line 116.
CacheStore(r, key, value) ==
    /\ nreq < MaxCalls
    /\ inflight[r].pc = "idle"
    /\ Runs(r)
    /\ nreq' = nreq + 1
    /\ suggestion_cache' = CacheSet(suggestion_cache, key, value, now)
    /\ t1log' = [t1log EXCEPT !.written = @ \cup {<<key, now, value>>}]
    /\ UNCHANGED <<now, ticks, redis_on, redis_store, lru, last, fp, apiVars, fetchVars,
                   recVars, inflight, loop>>


InitConc ==
    /\ now = 0
    /\ ticks = 0
    /\ nreq = 0
    /\ redis_on = FALSE
    /\ suggestion_cache = [k \in Keys |-> NoEntry]
    /\ redis_store = [k \in Keys |-> NoValue]
    /\ lru = <<>>
    /\ last = NoRequest
    /\ fp = NoKeys
    /\ ApiIdle
    /\ ConcIdle
    /\ RecIdle

NextConc ==
    \/ ClockTick
    \/ \E r \in Slots, key \in Keys : CacheRead(r, key)
    \/ \E r \in Slots : CacheCheck(r)
    \/ \E r \in Slots, key \in Keys, value \in CachedValues : CacheStore(r, key, value)

SpecConc == InitConc /\ [][NextConc]_vars

(***************************************************************************)
(* The per-seed fetches of one seed list, each under its own upstream      *)
(* condition: the loop of combine_suggestions over get_youtube_suggestions *)
(* and its memo.                                                           *)
(***************************************************************************)
FetchLists == UNION { [1..k -> SeedStrings] : k \in 1..MaxSeeds }

InitFetch ==
    /\ now = 0
    /\ ticks = 0
    /\ nreq = 0
    /\ redis_on = FALSE
    /\ suggestion_cache = [k \in Keys |-> NoEntry]
    /\ redis_store = [k \in Keys |-> NoValue]
    /\ lru = <<>>
    /\ last = NoRequest
    /\ fp = NoKeys
    /\ ApiIdle
    /\ inflight = [r \in Slots |-> Idle]
    /\ loop = 0
    /\ t1log = [written |-> {}, event |-> NoEvent]
    /\ \E l \in FetchLists : probe = [NoProbe EXCEPT !.songs = l]
    /\ history = NoHistory
    /\ RecIdle

\* suggestions = get_youtube_suggestions(song) for the next seed of the list:
\* the memoized value if there is one, else a fetch under fault.  refused:
\* the calls of this fetch that were answered 429.
FetchNext(fault) ==
    /\ probe.i <= Len(probe.songs)
    /\ ~probe.raised
    /\ LET song == probe.songs[probe.i]
           memo == Memoized(lru, song).tag # "Unset"
       IN \E r \in {IF memo THEN Outcome(Memoized(lru, song).tag, Memoized(lru, song).items, 0)
                     ELSE Fetch[song, fault]} :
             /\ lru' = Memoize(lru, song, r)
             /\ probe' = [probe EXCEPT
                            !.i = @ + 1,
                            !.raised = (r.tag = "Raise"),
                            !.outs = Append(@, [song |-> song, fault |-> fault, memo |-> memo,
                                                tag |-> r.tag, items |-> r.items,
                                                calls |-> r.calls,
                                                refused |-> IF memo THEN 0 ELSE Refused(fault)])]
    /\ UNCHANGED <<now, ticks, nreq, redis_on, suggestion_cache, redis_store, last, fp,
                   apiVars, concVars, recVars, history>>

NextFetch == \E fault \in Faults : FetchNext(fault)

SpecFetch == InitFetch /\ [][NextFetch]_vars

(***************************************************************************)
(* The memo of get_youtube_suggestions over many calls: calls of the       *)
(* followed seeds, each under its own upstream condition, and calls of     *)
(* other seed strings, each string new.                                    *)
(***************************************************************************)
MaxOthers == 129

\* str(n)
RECURSIVE Decimal(_)
Decimal(n) ==
    IF n < 10 THEN <<Digits[n + 1]>>
    ELSE Decimal(n \div 10) \o <<Digits[(n % 10) + 1]>>

\* The n-th other seed string: "x1", "x2", ...
OtherSeed(n) == <<"x">> \o Decimal(n)

\* get_youtube_suggestions(song) through its lru_cache: the memoized value
\* when there is one, else the function runs under fault.
GetSuggestions(song, fault) ==
    /\ LET memo == Memoized(lru, song).tag # "Unset"
       IN \E r \in {IF memo THEN Outcome(Memoized(lru, song).tag, Memoized(lru, song).items, 0)
                     ELSE GetYoutubeSuggestions(song, fault)} :
             /\ lru' = Memoize(lru, song, r)
             /\ history' =
                   [returned |-> [x \in MemoSeeds |->
                                    IF x = song /\ r.tag # "Raise"
                                    THEN [tag |-> r.tag, items |-> r.items]
                                    ELSE history.returned[x]],
                    since |-> [x \in MemoSeeds |->
                                 IF x # song THEN history.since[x] \cup {song}
                                 ELSE IF r.tag # "Raise" THEN {}
                                 ELSE history.since[x]],
                    others |-> history.others + (IF song \in MemoSeeds THEN 0 ELSE 1),
                    call |-> [song |-> song, fault |-> fault, memo |-> memo,
                              tag |-> r.tag, items |-> r.items, calls |-> r.calls,
                              prior |-> IF song \in MemoSeeds THEN history.returned[song]
                                        ELSE Unset,
                              since |-> IF song \in MemoSeeds
                                        THEN Cardinality(history.since[song]) ELSE 0]]
    /\ UNCHANGED <<now, ticks, nreq, redis_on, suggestion_cache, redis_store, last, fp,
                   apiVars, concVars, recVars, probe>>

InitMemo ==
    /\ now = 0
    /\ ticks = 0
    /\ nreq = 0
    /\ redis_on = FALSE
    /\ suggestion_cache = [k \in Keys |-> NoEntry]
    /\ redis_store = [k \in Keys |-> NoValue]
    /\ lru = <<>>
    /\ last = NoRequest
    /\ fp = NoKeys
    /\ ApiIdle
    /\ ConcIdle
    /\ RecIdle

NextMemo ==
    \/ \E song \in MemoSeeds, fault \in {"none", "status", "malformed"} :
          GetSuggestions(song, fault)
    \/ \E fault \in {"none", "status", "malformed"} :
          history.others < MaxOthers /\ GetSuggestions(OtherSeed(history.others + 1), fault)

SpecMemo == InitMemo /\ [][NextMemo]_vars

(***************************************************************************)
(* The fingerprint as a pure function: two seed lists are drawn, then      *)
(* their cache keys are computed.                                          *)
(***************************************************************************)
KeySeeds == { <<"a">>, <<"A", " ">>, <<" ", "b">>, <<"B">>, <<"a", "b">> }
SeedLists == UNION { [1..k -> KeySeeds] : k \in 0..MaxSeeds }

InitKey ==
    /\ now = 0
    /\ ticks = 0
    /\ nreq = 0
    /\ redis_on = FALSE
    /\ suggestion_cache = [k \in Keys |-> NoEntry]
    /\ redis_store = [k \in Keys |-> NoValue]
    /\ lru = <<>>
    /\ last = NoRequest
    /\ \E a \in SeedLists, b \in SeedLists :
          fp = [a |-> a, b |-> b, ka |-> <<>>, kb |-> <<>>, done |-> FALSE]
    /\ ApiIdle
    /\ ConcIdle
    /\ RecIdle

\* cache_key is computed for both lists.
ComputeKeys ==
    /\ ~fp.done
    /\ fp' = [fp EXCEPT !.ka = CacheKey(fp.a), !.kb = CacheKey(fp.b), !.done = TRUE]
    /\ UNCHANGED <<now, ticks, nreq, redis_on, suggestion_cache, redis_store, lru, last, apiVars, concVars, fetchVars, recVars>>

SpecKey == InitKey /\ [][ComputeKeys]_vars

(***************************************************************************)
(* The background task generate_and_save_recommendations (processing.py).  *)
(* The audio features of a song are the numbers its four columns hold,     *)
(* small whole numbers, every column in the same unit; the task computes   *)
(* on them as floats.                                                      *)
(***************************************************************************)
MaxRuns == 2

\* np.argsort(sim_scores)[::-1][:5]
TopN == 5
\* .limit(500)
CandidateLimit == 500
\* a NULL feature column
NoFeature == -1

\* A row of the songs table.
Song(spotify_id, name, artist, features) ==
    [spotify_id |-> spotify_id, name |-> name, artist |-> artist, features |-> features]

\* A row of the recommendations table (id and created_at left out).
Recommendation(user_id, song_name, artist_name, score) ==
    [user_id |-> user_id, song_name |-> song_name, artist_name |-> artist_name,
     score |-> score]

\* The tracks Spotify knows, with their audio features: danceability, energy,
\* valence, tempo.
SpotifyTracks ==
    << Song("t1", <<"A">>, "x", <<5, 5, 5, 4>>),
       Song("t2", <<"b">>, "y", <<8, 2, 6, 3>>),
       Song("t3", <<"c">>, "z", <<2, 8, 3, 5>>),
       Song("t4", <<"a", "!">>, "x", <<6, 4, 5, 4>>),
       Song("t5", <<"b", "!">>, "y", <<7, 3, 0, 3>>),
       Song("t6", <<"c", "!">>, "z", <<3, 7, 4, 5>>),
       Song("t7", <<"L", "I", "V", "E">>, "w", <<6, NoFeature, 4, 4>>),
       Song("t8", <<"A", "b">>, "x", <<4, 4, 4, 4>>) >>

\* get_spotify_token, lines 62-88: the token when the request is answered
\* 200, None otherwise (the RequestException is caught).
TokenRequest(ok) == IF ok THEN "token" ELSE "none"

\* lru_cache(maxsize=1) on get_spotify_token: the first value returned stays.
MemoizeToken(sp, r) == IF sp.token = "unset" THEN [sp EXCEPT !.token = r] ELSE sp

\* s LIKE pattern: "%" stands for any characters, "_" for one character.
RECURSIVE Like(_, _)
Like(s, pattern) ==
    IF pattern = <<>> THEN s = <<>>
    ELSE IF Head(pattern) = "%"
    THEN Like(s, Tail(pattern)) \/ (s # <<>> /\ Like(Tail(s), pattern))
    ELSE /\ s # <<>>
         /\ Head(pattern) \in {"_", Head(s)}
         /\ Like(Tail(s), Tail(pattern))

\* db.query(Song).filter(Song.name.ilike(f"%{song_name}%")).first(), rows in
\* table order: a sequence of length at most one.  ILIKE compares without
\* regard to case.
FindSong(table, song_name) ==
    Take(SelectSeq(table, LAMBDA row :
                      Like(Lower(row.name), <<"%">> \o Lower(song_name) \o <<"%">>)), 1)

\* re.sub(r'[\(\[].*?[\)\]]', '', s): from an opening bracket to the first
\* closing bracket after it, of either kind.
RECURSIVE RemoveBracketed(_)
RemoveBracketed(s) ==
    IF s = <<>> THEN <<>>
    ELSE IF Head(s) \in {"(", "["} /\ \E j \in 2..Len(s) : s[j] \in {")", "]"}
    THEN RemoveBracketed(SubSeq(s, 1 + (CHOOSE j \in 2..Len(s) :
                                           /\ s[j] \in {")", "]"}
                                           /\ \A k \in 2..(j - 1) : s[k] \notin {")", "]"}),
                                Len(s)))
    ELSE <<Head(s)>> \o RemoveBracketed(Tail(s))

keywords_to_remove ==
    << <<"o", "f", "f", "i", "c", "i", "a", "l", " ", "m", "u", "s", "i", "c", " ", "v", "i", "d", "e", "o">>,
       <<"o", "f", "f", "i", "c", "i", "a", "l", " ", "v", "i", "d", "e", "o">>,
       <<"l", "y", "r", "i", "c", " ", "v", "i", "d", "e", "o">>,
       <<"l", "y", "r", "i", "c", "s">>,
       <<"a", "u", "d", "i", "o">>,
       <<"h", "d">>,
       <<"f", "u", "l", "l">>,
       <<"v", "i", "d", "e", "o">>,
       <<"m", "u", "s", "i", "c">> >>

\* re.sub(r'\b' + keyword + r'\b', '', s, flags=re.IGNORECASE), from position
\* i of s on: the matches are found left to right in s as it is given.
RECURSIVE RemoveKeyword(_, _, _)
RemoveKeyword(s, keyword, i) ==
    IF i > Len(s) THEN <<>>
    ELSE IF /\ i + Len(keyword) - 1 <= Len(s)
            /\ Lower(SubSeq(s, i, i + Len(keyword) - 1)) = keyword
            /\ (i = 1 \/ s[i - 1] \notin WordChars)
            /\ (i + Len(keyword) > Len(s) \/ s[i + Len(keyword)] \notin WordChars)
    THEN RemoveKeyword(s, keyword, i + Len(keyword))
    ELSE <<s[i]>> \o RemoveKeyword(s, keyword, i + 1)

\* the loop over keywords_to_remove
RECURSIVE RemoveKeywords(_, _)
RemoveKeywords(s, keywords) ==
    IF keywords = <<>> THEN s
    ELSE RemoveKeywords(RemoveKeyword(s, Head(keywords), 1), Tail(keywords))

\* s.split(' - ')[-1]: the separators are found left to right, and what
\* follows the last one is kept.
RECURSIVE LastPart(_)
LastPart(s) ==
    IF \E i \in 1..(Len(s) - 2) : SubSeq(s, i, i + 2) = <<" ", "-", " ">>
    THEN LastPart(SubSeq(s, 3 + (CHOOSE i \in 1..(Len(s) - 2) :
                                    /\ SubSeq(s, i, i + 2) = <<" ", "-", " ">>
                                    /\ \A k \in 1..(i - 1) :
                                          SubSeq(s, k, k + 2) # <<" ", "-", " ">>),
                         Len(s)))
    ELSE s

\* _clean_song_name(song_name)
CleanSongName(song_name) ==
    Strip(LastPart(RemoveKeywords(RemoveBracketed(song_name), keywords_to_remove)))

\* "c - B (hd) audio": a liked song as a video title spells it
sDecorated == <<"c", " ", "-", " ", "B", " ", "(", "h", "d", ")", " ", "a", "u", "d", "i", "o">>

RecLists == { <<sA>>, <<sDecorated, sA>>, <<sC>>, <<<<"L", "I", "V", "E">>>> }

\* _clean_song_name on the liked songs of the model
CleanedNames ==
    [song_name \in UNION {{l[i] : i \in 1..Len(l)} : l \in RecLists} |->
        CleanSongName(song_name)]

\* search_for_song, lines 95-107, once it has a token: the first track Spotify
\* matches to the cleaned name, None when the search has no items.
SpotifySearch(song_name, answer) ==
    IF answer # "found" THEN <<>>
    ELSE Take(SelectSeq(SpotifyTracks, LAMBDA x :
                 Contains(Lower(x.name), Lower(CleanedNames[song_name]))), 1)

\* get_audio_features, lines 113-122, once it has a token: None unless
\* answered 200.
AudioFeatures(track, answer) == IF answer = "ok" THEN <<track.features>> ELSE <<>>

\* db.add(db_song); db.commit() (lines 56-57): fails when the session does,
\* and on a spotify_id already stored (unique column).
SongCommitFails(table, track, fail) ==
    \/ fail
    \/ \E i \in 1..Len(table) : table[i].spotify_id = track.spotify_id

\* lines 62-65: the features of db_song are appended unless danceability is
\* NULL.
AppendFeatures(liked_song_features, db_song) ==
    IF db_song.features[1] # NoFeature THEN Append(liked_song_features, db_song.features)
    ELSE liked_song_features

\* A NULL among the features makes np.mean raise (line 73).
HasNull(liked_song_features) ==
    \E i \in 1..Len(liked_song_features), j \in 1..4 :
        liked_song_features[i][j] = NoFeature

\* the sum of column j, row after row
RECURSIVE ColumnSum(_, _)
ColumnSum(liked_song_features, j) ==
    IF liked_song_features = <<>> THEN ZeroFloat
    ELSE FloatAdd(ColumnSum(SubSeq(liked_song_features, 1, Len(liked_song_features) - 1), j),
                  FloatOf(liked_song_features[Len(liked_song_features)][j]))

\* np.mean(np.array(liked_song_features), axis=0) (line 73): the sum of each
\* column divided by the number of rows
TasteProfile(liked_song_features) ==
    [j \in 1..4 |-> FloatDiv(ColumnSum(liked_song_features, j),
                             FloatOf(Len(liked_song_features)))]

\* db.query(Song).filter(Song.name.notin_(liked_song_db_names)).limit(500).all()
\* (lines 77-78): the liked names are lowered, the stored names are not.
CandidateSongs(table, song_names) ==
    Take(SelectSeq(table, LAMBDA row :
                      \A i \in 1..Len(song_names) : row.name # Lower(song_names[i])),
         CandidateLimit)

\* all([c.danceability, c.energy, c.valence, c.tempo]) (lines 86-90): NULL
\* and 0.0 are both falsy.
ValidCandidates(candidates) ==
    SelectSeq(candidates, LAMBDA c :
                 \A j \in 1..4 : c.features[j] # NoFeature /\ c.features[j] # 0)

\* [c.danceability, c.energy, c.valence, c.tempo] as floats
FeatureRow(features) == [j \in 1..4 |-> FloatOf(features[j])]

\* the sum of the products, left to right
FloatDot(a, b) ==
    FloatAdd(FloatAdd(FloatAdd(FloatMul(a[1], b[1]), FloatMul(a[2], b[2])),
                      FloatMul(a[3], b[3])),
             FloatMul(a[4], b[4]))

\* x / norm, a zero norm taken for 1.0
ScaledBy(x, norm) ==
    IF norm = ZeroFloat THEN x ELSE [j \in 1..4 |-> FloatDiv(x[j], norm)]

\* normalize(X) of cosine_similarity: the row divided by its Euclidean norm
Normalize(x) == ScaledBy(x, FloatSqrt(FloatDot(x, x)))

\* the rows a liked song of the model is found as, none with a NULL
LikedRows ==
    {found[1].features : found \in
        {f \in {SpotifySearch(song_name, "found") : song_name \in DOMAIN CleanedNames} :
            f # <<>> /\ \A j \in 1..4 : f[1].features[j] # NoFeature}}

\* the normalized taste profile of each list of liked rows of the model
Profiles ==
    Tabulated([liked_song_features \in UNION {[1..n -> LikedRows] : n \in 1..2} |->
                 Normalize(TasteProfile(liked_song_features))])

\* the normalized rows of the candidates that can be valid
CandidateRows ==
    Tabulated([spotify_id \in {SpotifyTracks[i].spotify_id : i \in
                                  {k \in 1..Len(SpotifyTracks) :
                                      \A j \in 1..4 : SpotifyTracks[k].features[j] > 0}} |->
                 Normalize(FeatureRow((CHOOSE t \in {SpotifyTracks[i] : i \in 1..Len(SpotifyTracks)} :
                                          t.spotify_id = spotify_id).features))])

\* cosine_similarity(taste_profile, candidate_features)[0] (line 101) for the
\* rows of the model: the products of the normalized rows
SimScores ==
    Tabulated([liked_song_features \in DOMAIN Profiles |->
                 Tabulated([spotify_id \in DOMAIN CandidateRows |->
                              FloatDot(Profiles[liked_song_features],
                                       CandidateRows[spotify_id])])])

\* sim_scores[i] of candidate c
SimScore(liked_song_features, c) == SimScores[liked_song_features][c.spotify_id]

\* np.argsort(sim_scores): ascending, equal scores in index order (numpy
\* sorts arrays this short by insertion).
RECURSIVE InsertBySim(_, _)
InsertBySim(srt, x) ==
    IF srt = <<>> THEN <<x>>
    ELSE IF FloatLess(x.score, Head(srt).score) THEN <<x>> \o srt
    ELSE <<Head(srt)>> \o InsertBySim(Tail(srt), x)

RECURSIVE Argsort(_)
Argsort(scored) ==
    IF scored = <<>> THEN <<>>
    ELSE InsertBySim(Argsort(SubSeq(scored, 1, Len(scored) - 1)), scored[Len(scored)])

Reverse(seq) == [i \in 1..Len(seq) |-> seq[Len(seq) + 1 - i]]

\* Steps 4 and 5, lines 101-121: the rows of the top matches.
NewRecommendations(user_id, liked_song_features, valid_candidates) ==
    LET scored == [i \in 1..Len(valid_candidates) |->
                     [song |-> valid_candidates[i],
                      score |-> SimScore(liked_song_features, valid_candidates[i])]]
        top == Take(Reverse(Argsort(scored)), TopN)
    IN [i \in 1..Len(top) |->
          Recommendation(user_id, top[i].song.name, top[i].song.artist, top[i].score)]

\* Lines 67-104: the early returns and the ranking.  pc: where the task is
\* afterwards.  fail: the query of the candidates fails.
Rank(user_id, song_names, liked_song_features, table, fail) ==
    LET candidates == CandidateSongs(table, song_names)
        valid_candidates == ValidCandidates(candidates)
        End(pc, stage, raised, computed) ==
            [pc |-> pc, stage |-> stage, raised |-> raised, computed |-> computed]
    IN IF liked_song_features = <<>> THEN End("done", "nofeatures", FALSE, <<>>)
       ELSE IF HasNull(liked_song_features) THEN End("done", "profile", TRUE, <<>>)
       ELSE IF fail THEN End("done", "candidates", TRUE, <<>>)
       ELSE IF candidates = <<>> THEN End("done", "nocandidates", FALSE, <<>>)
       ELSE IF valid_candidates = <<>> THEN End("done", "novalid", FALSE, <<>>)
       ELSE End("delete", "rank", FALSE,
                NewRecommendations(user_id, liked_song_features, valid_candidates))

restVars == <<now, ticks, redis_on, suggestion_cache, redis_store, lru, last, fp,
              apiVars, concVars, fetchVars>>

Running(t) == task[t].pc \notin {"none", "done"}

\* the next pass of the loop of step 1
NextSong(tk) == [tk EXCEPT !.i = @ + 1, !.pc = "query", !.track = <<>>]

\* the task has returned: its locals are gone
Ended(tk) == [tk EXCEPT !.pc = "done", !.songs = <<>>, !.i = 1, !.track = <<>>,
                            !.features = <<>>]

\* the except branch (lines 126-130): the session is rolled back to its last
\* commit and the task returns
Caught(tk, stage) == [Ended(tk) EXCEPT !.stage = stage, !.raised = TRUE]

\* A thread calls the task (line 19).  overlap: another run was under way at
\* some time of this run.
StartTask(t, user_id, song_names) ==
    /\ ~Running(t)
    /\ \A v \in TaskSlots : v < t => Running(v)
    /\ nreq < MaxRuns
    /\ nreq' = nreq + 1
    /\ task' = [u \in TaskSlots |->
                  IF u = t
                  THEN [NoTask EXCEPT !.pc = "query", !.user = user_id,
                                      !.songs = song_names, !.stage = "liked",
                                      !.before = rec_table[user_id],
                                      !.overlap = \E v \in TaskSlots \ {t} : Running(v)]
                  ELSE IF Running(u) THEN [task[u] EXCEPT !.overlap = TRUE]
                  ELSE task[u]]
    /\ UNCHANGED <<restVars, song_table, rec_table, spotify, client>>

\* Lines 37-39 and 62-65: the next liked song is looked up in the songs
\* table; a song found gives its features, for one not found
\* search_for_song is called.  A query that fails ends the task in the
\* except branch.
QuerySong(t, fail) ==
    /\ task[t].pc = "query"
    /\ task[t].i <= Len(task[t].songs)
    /\ \E cached \in {FindSong(song_table, task[t].songs[task[t].i])} :
          task' = [task EXCEPT ![t] =
                     IF fail THEN Caught(@, "liked")
                     ELSE IF cached = <<>> THEN [@ EXCEPT !.pc = "token"]
                     ELSE NextSong([@ EXCEPT !.features = AppendFeatures(@, cached[1])])]
    /\ UNCHANGED <<restVars, nreq, song_table, rec_table, spotify, client>>

\* search_for_song calls get_spotify_token (lines 92-93, 51-60): a memoized
\* value is used, None (no search, the song is skipped) or the token; without
\* credentials None is returned and memoized; else the token is requested.
TokenCall(t) ==
    /\ task[t].pc = "token"
    /\ spotify' = IF spotify.configured THEN spotify ELSE MemoizeToken(spotify, "none")
    /\ task' = [task EXCEPT ![t] =
                  IF spotify.token = "token" THEN [@ EXCEPT !.pc = "search"]
                  ELSE IF spotify.token = "none" \/ ~spotify.configured THEN NextSong(@)
                  ELSE [@ EXCEPT !.pc = "token_wait"]]
    /\ UNCHANGED <<restVars, nreq, song_table, rec_table, client>>

\* The token request is answered (lines 67-88): its value is memoized unless
\* another thread memoized one meanwhile, and used by this call either way.
TokenAnswer(t, ok) ==
    /\ task[t].pc = "token_wait"
    /\ spotify' = MemoizeToken(spotify, TokenRequest(ok))
    /\ task' = [task EXCEPT ![t] = IF ok THEN [@ EXCEPT !.pc = "search"] ELSE NextSong(@)]
    /\ UNCHANGED <<restVars, nreq, song_table, rec_table, client>>

\* GET /search is answered (lines 99-107; the request is not in a try).  For
\* a track found get_audio_features is called, which takes the memoized
\* token: without one it returns None at once (lines 110-111).
SearchAnswer(t, answer) ==
    /\ task[t].pc = "search"
    /\ \E found \in {SpotifySearch(task[t].songs[task[t].i], answer)} :
          task' = [task EXCEPT ![t] =
                     IF answer = "down" THEN Caught(@, "liked")
                     ELSE IF found = <<>> \/ spotify.token # "token" THEN NextSong(@)
                     ELSE [@ EXCEPT !.pc = "features", !.track = found]]
    /\ UNCHANGED <<restVars, nreq, song_table, rec_table, spotify, client>>

\* GET /audio-features is answered (lines 113-122; not in a try either).
FeaturesAnswer(t, answer) ==
    /\ task[t].pc = "features"
    /\ \E f \in {AudioFeatures(task[t].track[1], answer)} :
          task' = [task EXCEPT ![t] =
                     IF answer = "down" THEN Caught(@, "liked")
                     ELSE IF f = <<>> THEN NextSong(@)
                     ELSE [@ EXCEPT !.pc = "commit"]]
    /\ UNCHANGED <<restVars, nreq, song_table, rec_table, spotify, client>>

\* Lines 50-57: the fetched song is added and committed.
CommitSong(t, fail) ==
    /\ task[t].pc = "commit"
    /\ IF SongCommitFails(song_table, task[t].track[1], fail)
       THEN /\ task' = [task EXCEPT ![t] = Caught(@, "liked")]
            /\ UNCHANGED song_table
       ELSE /\ song_table' = Append(song_table, task[t].track[1])
            /\ task' = [task EXCEPT ![t].pc = "refresh"]
    /\ UNCHANGED <<restVars, nreq, rec_table, spotify, client>>

\* db.refresh(db_song) and lines 62-65: the committed row is read back in a
\* transaction of its own and gives its features; a read that fails ends the
\* task in the except branch, the song stored.
RefreshSong(t, fail) ==
    /\ task[t].pc = "refresh"
    /\ \E db_song \in {row \in {song_table[i] : i \in 1..Len(song_table)} :
                           row.spotify_id = task[t].track[1].spotify_id} :
          task' = [task EXCEPT ![t] =
                     IF fail THEN Caught(@, "liked")
                     ELSE NextSong([@ EXCEPT !.features = AppendFeatures(@, db_song)])]
    /\ UNCHANGED <<restVars, nreq, song_table, rec_table, spotify, client>>

\* After the loop (lines 67-104): the task returns early, or ranks the
\* candidates it reads from the songs table.
RankCandidates(t, fail) ==
    /\ task[t].pc = "query"
    /\ task[t].i > Len(task[t].songs)
    /\ \E g \in {Rank(task[t].user, task[t].songs, task[t].features, song_table, fail)} :
          task' = [task EXCEPT ![t] =
                     [(IF g.pc = "done" THEN Ended(@) ELSE @)
                        EXCEPT !.pc = g.pc, !.stage = g.stage, !.raised = g.raised,
                               !.computed = g.computed]]
    /\ UNCHANGED <<restVars, nreq, song_table, rec_table, spotify, client>>

\* Lines 108-109: the user's rows are deleted and the delete is committed; a
\* failed commit is rolled back.
ClearOld(t, fail) ==
    /\ task[t].pc = "delete"
    /\ IF fail
       THEN /\ task' = [task EXCEPT ![t] = Caught(@, "delete")]
            /\ UNCHANGED rec_table
       ELSE /\ rec_table' = [rec_table EXCEPT ![task[t].user] = <<>>]
            /\ task' = [task EXCEPT ![t].pc = "insert", ![t].stage = "delete"]
    /\ UNCHANGED <<restVars, nreq, song_table, spotify, client>>

\* Lines 112-130: the new rows are added and committed; a failed commit is
\* rolled back to the last commit, the one of the delete.
SaveNew(t, fail) ==
    /\ task[t].pc = "insert"
    /\ IF fail
       THEN /\ task' = [task EXCEPT ![t] = Caught(@, "insert")]
            /\ UNCHANGED rec_table
       ELSE /\ rec_table' = [rec_table EXCEPT ![task[t].user] = @ \o task[t].computed]
            /\ task' = [task EXCEPT ![t] = [Ended(@) EXCEPT !.stage = "insert"]]
    /\ UNCHANGED <<restVars, nreq, song_table, spotify, client>>

(***************************************************************************)
(* get_discover_playlist and get_vibe_recommendations (spotify_client.py): *)
(* the other callers of get_spotify_token.                                 *)
(***************************************************************************)
MaxClientCalls == 1

\* What the call does once get_spotify_token has returned token (lines
\* 126-127, 148-165): None without a token, and for get_vibe_recommendations
\* without genres; else it sends its request.
AfterToken(c, token) ==
    IF token # "token" \/ (c.fn = "vibe" /\ ~c.genres)
    THEN [c EXCEPT !.pc = "idle", !.fn = "none", !.genres = FALSE, !.result = "None"]
    ELSE [c EXCEPT !.pc = "get"]

\* get_discover_playlist() or get_vibe_recommendations(genres, moods) is
\* called, and calls get_spotify_token.
ClientCall(fn, genres) ==
    /\ client.pc = "idle"
    /\ client.calls < MaxClientCalls
    /\ spotify' = IF spotify.configured THEN spotify ELSE MemoizeToken(spotify, "none")
    /\ \E c \in {[client EXCEPT !.fn = fn, !.genres = genres, !.result = "none",
                                !.calls = @ + 1]} :
          client' = IF spotify.token = "unset" /\ spotify.configured
                    THEN [c EXCEPT !.pc = "token_wait"]
                    ELSE AfterToken(c, IF spotify.configured THEN spotify.token ELSE "none")
    /\ UNCHANGED <<restVars, nreq, song_table, rec_table, task>>

\* Its token request is answered.
ClientTokenAnswer(ok) ==
    /\ client.pc = "token_wait"
    /\ spotify' = MemoizeToken(spotify, TokenRequest(ok))
    /\ client' = AfterToken(client, TokenRequest(ok))
    /\ UNCHANGED <<restVars, nreq, song_table, rec_table, task>>

\* Its GET is answered (lines 133-149, 171-191): the list, or None when the
\* request fails (the exception is caught).
ClientAnswer(answer) ==
    /\ client.pc = "get"
    /\ client' = [client EXCEPT !.pc = "idle", !.fn = "none", !.genres = FALSE,
                                !.result = IF answer = "ok" THEN "List" ELSE "None"]
    /\ UNCHANGED <<restVars, nreq, song_table, rec_table, task, spotify>>

\* Songs may be stored already when the task is first run.
InitRec ==
    /\ now = 0
    /\ ticks = 0
    /\ nreq = 0
    /\ redis_on = FALSE
    /\ suggestion_cache = [k \in Keys |-> NoEntry]
    /\ redis_store = [k \in Keys |-> NoValue]
    /\ lru = <<>>
    /\ last = NoRequest
    /\ fp = NoKeys
    /\ ApiIdle
    /\ ConcIdle
    /\ song_table \in {<<>>, SubSeq(SpotifyTracks, 5, 5), SpotifyTracks}
    /\ rec_table = [u \in Users |-> <<>>]
    /\ task = [t \in TaskSlots |-> NoTask]
    /\ \E c \in BOOLEAN : spotify = [NoToken EXCEPT !.configured = c]
    /\ client = NoCall

NextRec ==
    \/ \E t \in TaskSlots, user_id \in Users, song_names \in RecLists :
          StartTask(t, user_id, song_names)
    \/ \E t \in TaskSlots, fail \in BOOLEAN : QuerySong(t, fail)
    \/ \E t \in TaskSlots : TokenCall(t)
    \/ \E t \in TaskSlots, ok \in BOOLEAN : TokenAnswer(t, ok)
    \/ \E t \in TaskSlots, answer \in {"found", "nomatch", "down"} : SearchAnswer(t, answer)
    \/ \E t \in TaskSlots, answer \in {"ok", "refused", "down"} : FeaturesAnswer(t, answer)
    \/ \E t \in TaskSlots, fail \in BOOLEAN : CommitSong(t, fail)
    \/ \E t \in TaskSlots, fail \in BOOLEAN : RefreshSong(t, fail)
    \/ \E t \in TaskSlots, fail \in BOOLEAN : RankCandidates(t, fail)
    \/ \E t \in TaskSlots, fail \in BOOLEAN : ClearOld(t, fail)
    \/ \E t \in TaskSlots, fail \in BOOLEAN : SaveNew(t, fail)
    \/ \E fn \in {"discover", "vibe"}, genres \in BOOLEAN : ClientCall(fn, genres)
    \/ \E ok \in BOOLEAN : ClientTokenAnswer(ok)
    \/ \E answer \in {"ok", "down"} : ClientAnswer(answer)

SpecRec == InitRec /\ [][NextRec]_vars

(***************************************************************************)
(* Properties.                                                             *)
(***************************************************************************)
Ids(lst) == [i \in 1..Len(lst) |-> lst[i].youtube_video_id]
Distinct(seq) == \A i, j \in 1..Len(seq) : i # j => seq[i] # seq[j]
Returned == last.path \in {"cache", "primary", "fallback", "empty"}

\* case / punctuation normalization of a title or a seed
Normalized(s) == Strip(Lower(RemovePunct(s)))

\* C1: every list combine_suggestions returns (from a cache tier, from the
\* primary pipeline or from the fallback) has pairwise distinct
\* youtube_video_id values.
C1_DistinctIds == Returned => Distinct(Ids(last.result))

\* C1 witness: a primary result of several items for two seeds whose fetched
\* lists share a video id.
C1_Witness ==
    /\ last.path = "primary"
    /\ Len(last.songs) = 2
    /\ Len(last.result) >= 2
    /\ \E i \in 1..Len(Memoized(lru, last.songs[1]).items), j \in 1..Len(Memoized(lru, last.songs[2]).items) :
          Memoized(lru, last.songs[1]).items[i].youtube_video_id
            = Memoized(lru, last.songs[2]).items[j].youtube_video_id

\* C2 (as claimed): no two elements of a returned list have the same
\* case/punctuation-normalized title.
C2_NormalizedTitlesDistinct ==
    Returned =>
        \A i, j \in 1..Len(last.result) :
            i # j => Normalized(last.result[i].title) # Normalized(last.result[j].title)

\* C3: a returned list never has more than K = 5 elements.
C3_AtMostK == Returned => Len(last.result) <= TopK

\* C3 witness: the primary pipeline truncated more than K unique candidates.
C3_Witness ==
    /\ last.path = "primary"
    /\ Len(DedupTitles(SortByScoreDesc(last.merged), {})) > TopK
    /\ Len(last.result) = TopK

\* C4: every scored candidate (the per-seed lists, the merged list and the
\* returned list, fallback item included) has 0 < score <= 4.0.
C4_ScoreBound ==
    /\ \A s \in SeedStrings : \A i \in 1..Len(Memoized(lru, s).items) :
          /\ FloatLess(ZeroFloat, Memoized(lru, s).items[i].score)
          /\ ~FloatLess(ScoreCap, Memoized(lru, s).items[i].score)
    /\ \A i \in 1..Len(last.merged) :
          /\ FloatLess(ZeroFloat, last.merged[i].score)
          /\ ~FloatLess(ScoreCap, last.merged[i].score)
    /\ \A i \in 1..Len(last.result) :
          /\ FloatLess(ZeroFloat, last.result[i].score)
          /\ ~FloatLess(ScoreCap, last.result[i].score)

\* C4 witness: a per-seed list holds a candidate whose score was cut to the
\* cap, and the last request returned the fallback item.
C4_Witness ==
    /\ \E s \in SeedStrings : \E i \in 1..Len(Memoized(lru, s).items) :
          Memoized(lru, s).items[i].score = ScoreCap
    /\ last.path = "fallback"
    /\ last.result[1].score = FallbackScore

\* position of the item with this video id in the merged list
MergeIndex(x) == CHOOSE i \in 1..Len(last.merged) :
                    last.merged[i].youtube_video_id = x.youtube_video_id
FromFirstSeed(x) ==
    \E k \in 1..Len(Memoized(lru, last.songs[1]).items) :
        Memoized(lru, last.songs[1]).items[k].youtube_video_id = x.youtube_video_id

\* C5: the primary result is ordered by score descending, equal scores in
\* merge order; the merge order puts the first seed's candidates before the
\* candidates only later seeds brought.
C5_ScoreOrderStable ==
    last.path = "primary" =>
        /\ \A i, j \in 1..Len(last.result) :
              i < j =>
                 \/ FloatLess(last.result[j].score, last.result[i].score)
                 \/ /\ last.result[i].score = last.result[j].score
                    /\ MergeIndex(last.result[i]) < MergeIndex(last.result[j])
        /\ \A i, j \in 1..Len(last.merged) :
              (FromFirstSeed(last.merged[i]) /\ ~FromFirstSeed(last.merged[j])) => i < j

\* C5 witness: a primary result with two elements of equal score.
C5_Witness ==
    /\ last.path = "primary"
    /\ \E i, j \in 1..Len(last.result) :
          i < j /\ last.result[i].score = last.result[j].score

\* C6 (as claimed): the same request issued again within TTL of a computed
\* result, with the upstream unchanged, returns the same content and issues
\* no provider call.
C6_CacheIdempotent ==
    [][ ( /\ nreq' = nreq + 1
          /\ last.path \in {"primary", "fallback", "empty"}
          /\ last'.songs = last.songs
          /\ last'.yields = last.yields
          /\ last'.catalog = last.catalog
          /\ now - last.time < CACHE_TTL )
        => (last'.result = last.result /\ last'.calls = 0) ]_vars

Count(seq, x) == Cardinality({ i \in 1..Len(seq) : seq[i] = x })
IsPermutation(x, y) ==
    /\ Len(x) = Len(y)
    /\ \A i \in 1..Len(x) : Count(x, x[i]) = Count(y, x[i])

\* C7: two seed lists that are permutations of the same strings after
\* lower-casing and trimming have the same cache fingerprint.
C7_FingerprintPermutation ==
    (fp.done /\ IsPermutation(NormSeeds(fp.a), NormSeeds(fp.b))) => fp.ka = fp.kb

\* C7 witness: two lists in different order and different spelling whose
\* normalized strings are the same.
C7_Witness ==
    /\ fp.done
    /\ Len(fp.a) = 2
    /\ IsPermutation(NormSeeds(fp.a), NormSeeds(fp.b))
    /\ NormSeeds(fp.a) # NormSeeds(fp.b)
    /\ fp.a[1] # NormSeeds(fp.a)[1]

\* C8 (as claimed): _cache_get serves an entry only while now - created_at
\* is below TTL.
C8_ServedOnlyBelowTTL == last.t1 = "hit" => last.age < CACHE_TTL

\* C9 (as claimed): when every seed's fetch yields Empty and the popular chart
\* is non-empty, the returned result is non-empty.
C9_FallbackNonEmpty ==
    ( /\ Returned
      /\ \A i \in 1..Len(last.yields) : last.yields[i] = "None"
      /\ last.catalog )
    => last.result # <<>>

\* C10 (as claimed): the fallback item's normalized title is no seed's
\* normalized form.
C10_FallbackNotSeed ==
    last.path = "fallback" =>
        \A i \in 1..Len(last.songs) :
            Normalized(last.result[1].title) # Normalized(last.songs[i])

\* C11: POST /suggestions answers 404 only when the request's pipeline
\* produced no candidate and its fallback call failed.
C11_NotFoundOnlyWhenNothing ==
    (resp.method = "POST" /\ resp.status = StatusNotFound) =>
        /\ last.path = "empty"
        /\ last.merged = <<>>
        /\ ~last.catalog

\* C12 (as claimed): no call of combine_suggestions ends with an exception
\* raised by a per-seed fetch, whatever the upstream does.
C12_FetchNeverPropagates == last.path # "error"

\* C13: a failing redis get or setex never leaves combine_suggestions: after
\* a failed get Tier 1 is consulted and the call goes on; after a failed
\* setex the result is returned, Tier 1 holds it and Tier 2 was not written.
C13_RedisFailureSwallowed ==
    /\ last.getfail => /\ last.t1 \in {"absent", "expired", "hit"}
                       /\ last.path \in {"cache", "primary", "empty", "fallback", "error"}
                       /\ (last.path = "error" => \E i \in 1..Len(last.yields) :
                                                      last.yields[i] = "Raise")
    /\ last.setfail => /\ last.path \in {"primary", "empty"}
                       /\ suggestion_cache[last.key]
                            = [present |-> TRUE, ts |-> last.time, data |-> last.result]
                       /\ ~(/\ redis_store[last.key].present
                            /\ redis_store[last.key].exp = last.time + REDIS_TTL_SECONDS)

C13_Witness ==
    /\ redis_on
    /\ last.getfail
    /\ last.setfail
    /\ last.path = "primary"
    /\ Len(last.result) > 0
    /\ \E k \in Keys : redis_store[k].present

\* the effects a rejected request must not have
NoEffect ==
    /\ resp'.calls = 0
    /\ UNCHANGED <<liked_songs_store, db, suggestion_cache, redis_store, lru, last>>

\* C14 (as claimed): a POST /suggestions with an empty songs list is answered
\* 400 and changes neither liked_songs_store, the durable stores nor the
\* cache tiers, and issues no provider call.
C14_EmptySongsRejected400 ==
    [][ (nreq' = nreq + 1 /\ resp'.method = "POST" /\ resp'.songs = <<>>) =>
            (resp'.status = StatusBadRequest /\ NoEffect) ]_vars

\* C14 (amended): with the API key configured the answer is 400, without it
\* 500; in both cases nothing is changed and no provider call is issued.
C14_EmptySongsRejected ==
    [][ (nreq' = nreq + 1 /\ resp'.method = "POST" /\ resp'.songs = <<>>) =>
            /\ resp'.status = (IF api_key THEN StatusBadRequest ELSE StatusServerError)
            /\ resp'.stage = "rejected"
            /\ NoEffect ]_vars

C14_Witness ==
    /\ api_key
    /\ resp.method = "POST"
    /\ resp.status = StatusBadRequest
    /\ resp.songs = <<>>
    /\ \E u \in Users : liked_songs_store[u].present

\* C15 (as claimed): whatever happens while the likes are persisted, a
\* validated request runs combine_suggestions and is answered from its value.
C15_PersistFailureHarmless ==
    (resp.method = "POST" /\ resp.stage # "rejected") =>
        resp.stage \in {"ok", "notfound", "combine"}

Range(seq) == {seq[i] : i \in 1..Len(seq)}

\* C16 (as claimed): persisting songs for a user leaves, on each store, exactly
\* the new set of songs, having inserted only the songs not stored before and
\* deleted only the stored songs not in the new set.
C16_SetDiffUpsert ==
    [][ (nreq' = nreq + 1 /\ resp'.method = "POST" /\ resp'.stage # "rejected") =>
            \A s \in StoreNames :
                LET old == Range(db[s].likes[resp'.user])
                    new == Range(resp'.songs)
                IN /\ Range(db'[s].likes[resp'.user]) = new
                   /\ Range(resp'.ops[s].inserted) = new \ old
                   /\ Range(resp'.ops[s].deleted) = old \ new ]_vars

\* C17 (as claimed): in every interleaving of the requests in flight, a
\* Tier 1 lookup returns only a whole result that _cache_set wrote for the
\* same key and that is unexpired (now - created_at < TTL), and a lookup
\* removes only an entry that is past TTL, never one written since.
C17_Tier1Safe ==
    /\ t1log.event.kind = "hit" =>
          /\ <<t1log.event.key, t1log.event.ts, t1log.event.data>> \in t1log.written
          /\ t1log.event.at - t1log.event.ts < CACHE_TTL
    /\ t1log.event.kind = "evict" =>
          /\ t1log.event.at - t1log.event.ts >= CACHE_TTL
          /\ <<t1log.event.key, t1log.event.ts, t1log.event.data>> \in t1log.written

\* C18 (as claimed): a fetch that finds the provider's budget exhausted has no
\* call refused and does not fail: it gives what it gives with budget left.
C18_RateLimitWaits ==
    \A k \in 1..Len(probe.outs) :
        (~probe.outs[k].memo /\ probe.outs[k].fault \in {"limited", "limited_once"}) =>
            /\ probe.outs[k].refused = 0
            /\ probe.outs[k].tag = Fetch[probe.outs[k].song, "none"].tag

\* C19 (as claimed): when the similarity step cannot run, the fetch of a seed
\* with surviving candidates still returns these candidates, scored without
\* similarity and at most 4.0.
C19_SimilarityFailureTolerated ==
    \A k \in 1..Len(probe.outs) :
        (/\ ~probe.outs[k].memo
         /\ probe.outs[k].fault = "degenerate"
         /\ Fetch[probe.outs[k].song, "none"].tag = "List") =>
            /\ probe.outs[k].tag = "List"
            /\ Range(Ids(probe.outs[k].items))
                 = Range(Ids(Fetch[probe.outs[k].song, "none"].items))
            /\ \A i \in 1..Len(probe.outs[k].items) :
                  /\ FloatLess(ZeroFloat, probe.outs[k].items[i].score)
                  /\ ~FloatLess(ScoreCap, probe.outs[k].items[i].score)

\* the length in seconds of a known duration
Seconds(d) ==
    (IF d.h > 0 THEN 3600 * d.h ELSE 0) + (IF d.m > 0 THEN 60 * d.m ELSE 0)
    + (IF d.s > 0 THEN d.s ELSE 0)

\* C20 (as claimed): of the related videos that pass the keyword filter, the
\* fetch drops exactly those whose duration is known and below 60 seconds.
C20_DurationFilterExact ==
    \A k \in 1..Len(probe.outs) :
        (probe.outs[k].tag = "List" /\ ~probe.outs[k].memo) =>
            LET q == Strip(Lower(RemovePunct(probe.outs[k].song)))
                rel == RelatedItems(SearchItems(q)[1])
            IN \A j \in 1..Len(rel) :
                  ~IsUnwanted(Lower(Video(rel[j]).title)) =>
                      ((\E i \in 1..Len(probe.outs[k].items) :
                           probe.outs[k].items[i].youtube_video_id = Video(rel[j]).id)
                       <=> ~(Video(rel[j]).duration.pt
                             /\ Seconds(Video(rel[j]).duration) < 60))

\* C21 (as claimed): once a call for a followed seed string has returned, a
\* list or None, a later call with the same string returns that value and
\* issues no HTTP request, as long as no more than 128 distinct other seed
\* strings have been requested since it returned.
C21_FetchMemoized ==
    (history.call.prior.tag # "Unset" /\ history.call.since <= LruMaxSize) =>
        /\ history.call.memo
        /\ history.call.calls = 0
        /\ history.call.tag = history.call.prior.tag
        /\ history.call.items = history.call.prior.items

\* C21 (amended): once a call for a seed string has returned, a list or None,
\* a later call with the same string returns that value and issues no HTTP
\* request, whatever the upstream does by then, as long as fewer than 128
\* distinct other seed strings have been requested since the string last
\* returned.
C21_FetchMemoizedBelowMaxSize ==
    (history.call.prior.tag # "Unset" /\ history.call.since < LruMaxSize) =>
        /\ history.call.memo
        /\ history.call.calls = 0
        /\ history.call.tag = history.call.prior.tag
        /\ history.call.items = history.call.prior.items

\* A None memoized under a failing upstream is returned, with upstream
\* working again, after 127 other strings were requested, the seed itself
\* having been requested again among them.
C21_Witness ==
    /\ history.call.song = sA
    /\ history.call.fault = "none"
    /\ history.call.memo
    /\ history.call.prior.tag = "None"
    /\ history.call.since = LruMaxSize - 1
    /\ history.others > LruMaxSize
    /\ Fetch[sA, "none"].tag = "List"

\* C22 (as claimed): after a validated POST /suggestions with songs S for a
\* user, a GET /liked-songs for that user with no POST for the user in
\* between returns exactly S (liked_songs_store holds the S of the user's
\* last validated POST).
C22_LikedSongsAfterPost ==
    (resp.method = "GET" /\ liked_songs_store[resp.user].present) =>
        /\ resp.status = StatusOk
        /\ resp.liked = liked_songs_store[resp.user].songs

\* C23 (as claimed): when a run of generate_and_save_recommendations that no
\* other run overlapped returns, normally or through its except branch, the
\* user's rows are the rows present before the run or the newly computed
\* rows (at most 5), never anything else; a run that ends early for lack of
\* features or candidates leaves the rows as they were.
C23_ReplacementAllOrNothing ==
    [][ \A t \in TaskSlots :
          (task[t].pc # "done" /\ task'[t].pc = "done" /\ ~task'[t].overlap) =>
              /\ \/ rec_table'[task'[t].user] = task'[t].before
                 \/ /\ task'[t].stage = "insert"
                    /\ rec_table'[task'[t].user] = task'[t].computed
                    /\ Len(task'[t].computed) <= TopN
              /\ task'[t].stage \in {"nofeatures", "nocandidates", "novalid"} =>
                     rec_table'[task'[t].user] = task'[t].before ]_vars

====
